---- MODULE Spec2Model ----
(***************************************************************************)
(* The ONNX encoder/decoder translation engine of ClassNoteAI              *)
(* (src-tauri/src/translation/model.rs): TranslationModel::load_model,     *)
(* TranslationModel::translate with its hand-written autoregressive decode *)
(* loop, and the helpers the loop calls.                                   *)
(*                                                                         *)
(* Texts are sequences of one-character strings; the five characters of    *)
(* the literal "<unk>" are carried as the single symbol "<unk>".  Logits   *)
(* are f32 in the code; here they are exact rationals held as integers     *)
(* over the common denominator LogitScale,     so that every division   *)
(* by repetition_penalty = PenaltyNum/PenaltyDen is exact.                 *)
(***************************************************************************)
EXTENDS Integers, Sequences, FiniteSets, TLC

(***************************************************************************)
(* Bounds of the model.  max_length and SafetyStopLen stand for the        *)
(* code's 150 (GenerationConfig::default) and 100 (step 9 of the loop),    *)
(* scaled down together so that both limits are reached.                   *)
(***************************************************************************)
max_length == 6

SafetyStopLen == 5

MaxTextLen == 3

\* the helper specifications: logits in -PenMaxLogit..PenMaxLogit, and up to
\* PenMaxK + 1 occurrences of a token
PenMaxLogit == 6

PenMaxK == 3

(***************************************************************************)
(* Program constants.                                                      *)
(***************************************************************************)
\* a guard on 3-grams
no_repeat_ngram_size_3 == 3

no_repeat_ngram_size == 2

repetition_threshold == 3

short_sentence_threshold == 0

\* repetition_penalty = 1.5 = PenaltyNum / PenaltyDen
PenaltyNum == 3

PenaltyDen == 2

\* the hard-coded anomalous token and its margin (2.0)
Token8 == 8

Token8Margin == 2

\* hard-coded language token ids
MBartSrcLangId == 250004

MBartTgtLangId == 250025

NllbSrcLangDefault == 256047

NllbTgtLangDefault == 256093

\* the defaults of TranslationModel::new
DefaultStartEosId == 2

DefaultVocabSize == 250054

\* BOS and PAD ids dropped from the output of a language-prefixed call
BosId == 0

PadId == 1

None == -1

(***************************************************************************)
(* Small helpers on sequences.                                             *)
(***************************************************************************)
Range(s) == {s[i] : i \in 1..Len(s)}

Last(s) == s[Len(s)]

Drop(s, n) == SubSeq(s, n + 1, Len(s))

RECURSIVE Pow(_, _)
Pow(b, e) == IF e = 0 THEN 1 ELSE b * Pow(b, e - 1)

Count(s, x) == Cardinality({i \in 1..Len(s) : s[i] = x})

IsPrefix(p, s) == Len(p) <= Len(s) /\ SubSeq(s, 1, Len(p)) = p

RECURSIVE SelectNot(_, _)
SelectNot(s, drop) ==
    IF s = <<>> THEN <<>>
    ELSE IF Head(s) \in drop THEN SelectNot(Tail(s), drop)
    ELSE <<Head(s)>> \o SelectNot(Tail(s), drop)

\* the longest prefix of s with no element in stop (Iterator::take_while)
RECURSIVE TakeUntil(_, _)
TakeUntil(s, stop) ==
    IF s = <<>> \/ Head(s) \in stop THEN <<>>
    ELSE <<Head(s)>> \o TakeUntil(Tail(s), stop)

(***************************************************************************)
(* preprocess_text_for_translation                                         *)
(***************************************************************************)
Alphabet == {" ", "[", "]", "(", ")", ".", "a", "<unk>"}

PunctSet == {".", ",", "!", "?", ";", ":", " "}

RECURSIVE SkipWs(_)
SkipWs(s) == IF s # <<>> /\ Head(s) = " " THEN SkipWs(Tail(s)) ELSE s

\* the first word of s (s does not start with whitespace)
RECURSIVE FirstWord(_)
FirstWord(s) ==
    IF s = <<>> \/ Head(s) = " " THEN <<>>
    ELSE <<Head(s)>> \o FirstWord(Tail(s))

\* str::trim on a text whose only whitespace is " "
RECURSIVE TrimEnd(_, _)
TrimEnd(s, set) ==
    IF s # <<>> /\ Last(s) \in set THEN TrimEnd(SubSeq(s, 1, Len(s) - 1), set)
    ELSE s

RECURSIVE TrimStart(_, _)
TrimStart(s, set) ==
    IF s # <<>> /\ Head(s) \in set THEN TrimStart(Tail(s), set) ELSE s

TrimMatches(s, set) == TrimEnd(TrimStart(s, set), set)

\* split_whitespace().collect::<Vec<&str>>().join(" ")
RECURSIVE CollapseWs(_)
CollapseWs(s) ==
    LET t == SkipWs(s)
    IN  IF t = <<>> THEN <<>>
        ELSE LET w == FirstWord(t)
                 r == CollapseWs(Drop(t, Len(w)))
             IN  IF r = <<>> THEN w ELSE w \o <<" ">> \o r

\* Regex open.*?close, replace_all with "": leftmost match, shortest content
RECURSIVE RemoveSpans(_, _, _)
RemoveSpans(s, open, close) ==
    IF s = <<>> THEN <<>>
    ELSE IF Head(s) = open /\ \E j \in 2..Len(s) : s[j] = close
         THEN LET j == CHOOSE k \in 2..Len(s) :
                          s[k] = close /\ \A m \in 2..(k - 1) : s[m] # close
              IN  RemoveSpans(Drop(s, j), open, close)
         ELSE <<Head(s)>> \o RemoveSpans(Tail(s), open, close)

\* Regex <unk>, replace_all with " "
ReplaceUnk(s) == [i \in 1..Len(s) |-> IF s[i] = "<unk>" THEN " " ELSE s[i]]

preprocess_text_for_translation(text) ==
    IF text = <<>> THEN <<>>
    ELSE LET c1 == CollapseWs(TrimMatches(text, {" "}))
             c2 == RemoveSpans(c1, "[", "]")
             c3 == RemoveSpans(c2, "(", ")")
             c4 == ReplaceUnk(c3)
             c5 == CollapseWs(c4)
             c6 == TrimMatches(c5, PunctSet)
         IN  TrimMatches(c6, {" "})

\* str::len, in bytes
RECURSIVE TextLen(_)
TextLen(text) ==
    IF text = <<>> THEN 0
    ELSE (IF Head(text) = "<unk>" THEN 5 ELSE 1) + TextLen(Tail(text))

(***************************************************************************)
(* Logits.  A decoder row is a function 0..vocab_size-1 -> Int; the loop   *)
(* works on the row multiplied by LogitScale, on which dividing by         *)
(* repetition_penalty once per generated token stays exact.                *)
(***************************************************************************)
ScaleExp == max_length + 2

LogitScale == Pow(PenaltyNum, ScaleExp)

ScaleRow(row) == [i \in DOMAIN row |-> row[i] * LogitScale]

\* logits[idx] /= repetition_penalty, once per element of generated_tokens
RECURSIVE apply_repetition_penalty(_, _)
apply_repetition_penalty(logits, generated_tokens) ==
    IF generated_tokens = <<>> THEN logits
    ELSE LET idx == Head(generated_tokens)
             upd == IF idx \in DOMAIN logits
                    THEN [logits EXCEPT ![idx] = (@ * PenaltyDen) \div PenaltyNum]
                    ELSE logits
         IN  apply_repetition_penalty(upd, Tail(generated_tokens))

\* Iterator::max_by: of several equal maxima the last one
ArgMax(logits) ==
    CHOOSE i \in DOMAIN logits :
        \A j \in DOMAIN logits : logits[j] < logits[i] \/ (logits[j] = logits[i] /\ j <= i)

\* sort_by(|a, b| b.1.partial_cmp(&a.1)): stable, descending by logit
SortedDesc(logits) ==
    LET Before(j, i) == logits[j] > logits[i] \/ (logits[j] = logits[i] /\ j < i)
        Rank(i) == Cardinality({j \in DOMAIN logits : Before(j, i)})
    IN  [r \in 1..Cardinality(DOMAIN logits) |->
            CHOOSE i \in DOMAIN logits : Rank(i) = r - 1]

\* the scan written 0..len - n instead of 0..=len - n: the last window is missed
has_repeated_ngram_exclusive(generated_ids, ngram_size, new_token) ==
    IF Len(generated_ids) < ngram_size THEN FALSE
    ELSE LET start_idx == Len(generated_ids) + 1 - ngram_size
             check_ngram == SubSeq(generated_ids, start_idx + 1, Len(generated_ids))
                                \o <<new_token>>
         IN  \E i \in 0..(Len(generated_ids) - ngram_size - 1) :
                 \A j \in 0..(ngram_size - 1) :
                     generated_ids[i + j + 1] = check_ngram[j + 1]

\* lines 1003-1039
has_repeated_ngram(generated_ids, ngram_size, new_token) ==
    IF Len(generated_ids) < ngram_size THEN FALSE
    ELSE LET start_idx == Len(generated_ids) + 1 - ngram_size
             check_ngram == SubSeq(generated_ids, start_idx + 1, Len(generated_ids))
                                \o <<new_token>>
         IN  \E i \in 0..(Len(generated_ids) - ngram_size) :
                 \A j \in 0..(ngram_size - 1) :
                     generated_ids[i + j + 1] = check_ngram[j + 1]

\* a token-8 guard that also gives way at a margin of exactly 2.0
SelectCandidateAtMargin(last_logits, text, sampled) ==
    LET max_idx == ArgMax(last_logits)
        logit_values == SortedDesc(last_logits)
    IN  IF max_idx = Token8
        THEN IF Len(logit_values) > 1
                /\ last_logits[Token8] - last_logits[logit_values[2]]
                       >= Token8Margin * LogitScale
             THEN logit_values[2]
             ELSE max_idx
        ELSE IF TextLen(text) < short_sentence_threshold THEN sampled
        ELSE max_idx

\* step 3 of the loop: the token-8 guard, else sampling for short texts,
\* else the argmax; sampled is the draw of sample_top_p
SelectCandidate(last_logits, text, sampled) ==
    LET max_idx == ArgMax(last_logits)
        logit_values == SortedDesc(last_logits)
    IN  IF max_idx = Token8
        THEN IF Len(logit_values) > 1
                /\ last_logits[Token8] - last_logits[logit_values[2]]
                       > Token8Margin * LogitScale
             THEN logit_values[2]
             ELSE max_idx
        ELSE IF TextLen(text) < short_sentence_threshold THEN sampled
        ELSE max_idx

\* whether step 3 draws from sample_top_p
UsesSampling(last_logits, text) ==
    ArgMax(last_logits) # Token8 /\ TextLen(text) < short_sentence_threshold

\* step 4: the candidates tried after an n-gram hit, logit_values.iter().skip(1)
\* a fallback that keeps the top candidate when no other one is free
NgramFallbackKeepsTop(last_logits, generated_ids) ==
    LET logit_values == SortedDesc(last_logits)
        free == {r \in 2..Len(logit_values) :
                    ~has_repeated_ngram(generated_ids, no_repeat_ngram_size,
                                        logit_values[r])}
    IN  IF free = {} THEN logit_values[1]
        ELSE logit_values[CHOOSE r \in free : \A q \in free : r <= q]

NgramFallback(last_logits, generated_ids) ==
    LET logit_values == SortedDesc(last_logits)
        ok == {r \in 2..Len(logit_values) :
                  ~has_repeated_ngram(generated_ids, no_repeat_ngram_size, logit_values[r])}
    IN  IF ok = {} THEN None
        ELSE logit_values[CHOOSE r \in ok : \A q \in ok : r <= q]

(***************************************************************************)
(* The collaborators: model directories, tokenizers, decoder rows.         *)
(***************************************************************************)
\* a tokenizer file: what encode() puts around the pieces and which NLLB
\* language codes token_to_id() knows
NoTokenizer ==
    [loaded |-> FALSE, lang_prefix |-> None, eos_suffix |-> None,
     eng_Latn |-> None, zho_Hans |-> None]

TokMarian == [NoTokenizer EXCEPT !.loaded = TRUE, !.eos_suffix = 0]

TokMBart == [NoTokenizer EXCEPT !.loaded = TRUE, !.eos_suffix = 2,
                                !.lang_prefix = MBartSrcLangId]

TokMBartBare == [NoTokenizer EXCEPT !.loaded = TRUE]

TokNllb == [NoTokenizer EXCEPT !.loaded = TRUE, !.eos_suffix = 2,
                               !.eng_Latn = 256047, !.zho_Hans = 256200]

\* config.json of a model directory
CfgMarian ==
    [model_type |-> "marian", decoder_start_token_id |-> 4, eos_token_id |-> 0,
     vocab_size |-> 5]

CfgMBart ==
    [model_type |-> "mbart", decoder_start_token_id |-> 2, eos_token_id |-> 2,
     vocab_size |-> 5]

CfgNllb == [CfgMBart EXCEPT !.model_type = "m2m_100"]

\* a decoder of two entries whose config names an eos and a decoder start
\* outside of them
CfgTiny ==
    [model_type |-> "marian", decoder_start_token_id |-> 4, eos_token_id |-> 2,
     vocab_size |-> 2]

\* a model directory: exists, holds the two .onnx files, they load, and the
\* tokenizer.json it holds (NoTokenizer: none, or one that fails to load)
DirMarian ==
    [name |-> "marian", exists |-> TRUE, config |-> CfgMarian, files |-> TRUE,
     sessions |-> TRUE, tokenizer |-> TokMarian]

DirMBart == [DirMarian EXCEPT !.name = "mbart", !.config = CfgMBart,
                              !.tokenizer = TokMBart]

DirMBartBare == [DirMBart EXCEPT !.name = "mbart_bare", !.tokenizer = TokMBartBare]

DirNllb == [DirMarian EXCEPT !.name = "nllb", !.config = CfgNllb,
                             !.tokenizer = TokNllb]

DirTiny == [DirMarian EXCEPT !.name = "tiny", !.config = CfgTiny]

DirNoOnnx == [DirMBart EXCEPT !.name = "no_onnx", !.files = FALSE]

DirNoTokenizer == [DirMarian EXCEPT !.name = "no_tok", !.tokenizer = NoTokenizer]

DirMissing == [DirMarian EXCEPT !.name = "missing", !.exists = FALSE]

LangPairs ==
    {<<"en", "zh">>, <<"eng_Latn", "zho_Hans">>, <<"en_XX", "zh_CN">>, <<"fr", "de">>}

\* all texts of at most n symbols
RECURSIVE TextsUpTo(_)
TextsUpTo(n) ==
    IF n = 0 THEN {<<>>}
    ELSE LET shorter == TextsUpTo(n - 1)
         IN  shorter \cup {<<ch>> \o t : ch \in Alphabet, t \in {u \in shorter : Len(u) = n - 1}}

\* a decoder row: token a scores hi, token b scores mid, every other token lo
RowOf(rs, vocab_size) ==
    [i \in 0..(vocab_size - 1) |->
        IF i = rs.a THEN rs.hi ELSE IF i = rs.b THEN rs.mid ELSE rs.lo]

RowSpecs(tokens, mids) ==
    {r \in [a : tokens, b : tokens, hi : {6}, mid : mids, lo : {-3}] : r.a # r.b}

\* what one decoder run returns for T input ids.  "ok": logits
\* [1, T, vocab_size]; "err": a backend error; "zero_len": logits with no
\* position; "wide": logits [1, T, V] with V > vocab_size, of which the code
\* reads the vocab_size values rs at the offset (T - 1) * vocab_size;
\* "short": logits with fewer than T * vocab_size values
DecoderOutcomes(rows) ==
    {[kind |-> k, rs |-> r] : k \in {"ok", "wide"}, r \in rows}
        \cup {[kind |-> k, rs |-> [a |-> 0, b |-> 0, hi |-> 0, mid |-> 0, lo |-> 0]] :
                 k \in {"err", "zero_len", "short"}}

\* the decoder of a sound model directory
SoundDecoder == {"ok", "err", "zero_len"}

\* what the encoder run returns: last_hidden_state [1, L, H], a backend
\* error, an empty tensor, a tensor of rank 2, or [1, L', H] with L' # L
EncoderOutcomes == {"ok", "err", "empty", "rank2", "len_mismatch"}

(***************************************************************************)
(* State.                                                                  *)
(***************************************************************************)
VARIABLES
    tm,        \* the TranslationModel behind get_model()
    encLock,   \* per session pair, the std::sync::Mutex of its encoder_session
    decLock,   \* per session pair, the std::sync::Mutex of its decoder_session
    call,      \* per caller, its translate() invocation and blocking task
    pool,      \* what the callers and the collaborators draw from
    memo,      \* the encoder and decoder as functions, when pool.fixed
    hist,      \* observations: the outcomes of the calls since the last load
    probe      \* a part applied on its own: a helper's inputs and results, or
               \* the CTranslate2 translator and the translate_rough requests

vars == <<tm, encLock, decLock, call, pool, memo, hist, probe>>

\* what no operation of the engine changes
env == <<pool, probe>>

NoProbe == [phase |-> "none"]

FreeLock == [holder |-> 0, poisoned |-> FALSE]

\* the Arc<Mutex<Session>> pairs that are alive at once: the pair of the
\* model, and the pair a load replaced while a detached task still used it
Sessions == {0, 1}

NoLocks == [g \in Sessions |-> FreeLock]

NoLang ==
    [src_lang_token_id |-> 0, tgt_lang_token_id |-> 0,
     needs_encoder_prefix |-> FALSE, needs_decoder_prefix |-> FALSE]

NoResult == [ok |-> FALSE, val |-> <<>>]

Err(tag) == [ok |-> FALSE, val |-> <<tag>>]

Ok(text) == [ok |-> TRUE, val |-> text]

\* TranslationModel::new
NewModel ==
    [is_loaded |-> FALSE, encoder_session |-> "none", decoder_session |-> "none",
     tokenizer |-> NoTokenizer, model_dir |-> "",
     decoder_start_token_id |-> DefaultStartEosId, eos_token_id |-> DefaultStartEosId,
     vocab_size |-> DefaultVocabSize, model_type |-> "mbart", sess |-> 0]

IdleCall ==
    [pc |-> "idle", text |-> <<>>, source_lang |-> "", target_lang |-> "",
     tokenizer |-> NoTokenizer, decoder_start_token_id |-> 0, eos_token_id |-> 0,
     vocab_size |-> 0, lang |-> NoLang, sess |-> 0, abandoned |-> FALSE,
     input_ids |-> <<>>, encoder_hidden_states |-> <<>>,
     generated_ids |-> <<>>, consecutive_same |-> 0,
     last_token |-> None, step |-> 0, output_ids |-> <<>>, result |-> NoResult,
     \* observations of the run
     exit |-> "", n_encode |-> 0, n_encoder |-> 0, n_decoder |-> 0, n_decode |-> 0,
     run_failed |-> FALSE, shape_mismatch |-> FALSE,
     first_dec_input |-> <<>>, last_dec_input |-> <<>>, dec_enc |-> {},
     choices |-> <<>>]

NoHist == [seen |-> {}, first |-> {}]

NoMemo == [enc |-> {}, dec |-> {}]

Callers == pool.callers

Set(c, upd) == call' = [call EXCEPT ![c] = upd]

(***************************************************************************)
(* load_model: model.rs 131-234, with load_config 250-308                  *)
(***************************************************************************)
load_config(m, config) ==
    [m EXCEPT !.decoder_start_token_id = config.decoder_start_token_id,
              !.eos_token_id = config.eos_token_id,
              !.vocab_size = config.vocab_size,
              !.model_type = config.model_type]

\* the session pair a load creates: the place of the replaced pair, or the
\* other place while a detached task still holds a clone of the replaced pair
FreshSessions ==
    IF \E c \in Callers : call[c].pc # "idle" /\ call[c].sess = tm.sess
    THEN 1 - tm.sess ELSE tm.sess

\* load_model returns Ok: the directory exists, holds both .onnx files, and
\* both sessions load (lines 133-172); the tokenizer does not matter
LoadOk(dir) == dir.exists /\ dir.files /\ dir.sessions

\* a load that forgets the tokenizer of the earlier load when its own
\* tokenizer file does not load
LoadModelFreshTokenizer(dir) ==
    /\ \A c \in Callers : call[c].pc = "idle" \/ call[c].abandoned
    /\ IF ~dir.exists
       THEN UNCHANGED <<tm, encLock, decLock, memo>>
       ELSE LET configured == load_config(tm, dir.config)
            IN  IF ~dir.files \/ ~dir.sessions
                THEN /\ tm' = configured
                     /\ UNCHANGED <<encLock, decLock, memo>>
                ELSE /\ \A c \in Callers :
                            call[c].pc # "idle" => call[c].sess # FreshSessions
                     /\ tm' = [configured EXCEPT
                                  !.encoder_session = dir.name,
                                  !.decoder_session = dir.name,
                                  !.model_dir = dir.name,
                                  !.tokenizer = dir.tokenizer,
                                  !.is_loaded = TRUE,
                                  !.sess = FreshSessions]
                     /\ encLock' = [encLock EXCEPT ![FreshSessions] = FreeLock]
                     /\ decLock' = [decLock EXCEPT ![FreshSessions] = FreeLock]
                     /\ memo' = NoMemo
    /\ hist' = IF dir.exists THEN NoHist ELSE hist
    /\ UNCHANGED <<call, env>>

\* load_model takes &mut self: no translate future on the model is alive
LoadModel(dir) ==
    /\ \A c \in Callers : call[c].pc = "idle" \/ call[c].abandoned
    /\ IF ~dir.exists
       THEN UNCHANGED <<tm, encLock, decLock, memo>>
       ELSE LET configured == load_config(tm, dir.config)
            IN  IF ~dir.files \/ ~dir.sessions
                THEN /\ tm' = configured
                     /\ UNCHANGED <<encLock, decLock, memo>>
                ELSE /\ \A c \in Callers :
                            call[c].pc # "idle" => call[c].sess # FreshSessions
                     /\ tm' = [configured EXCEPT
                                  !.encoder_session = dir.name,
                                  !.decoder_session = dir.name,
                                  !.model_dir = dir.name,
                                  !.tokenizer = IF dir.tokenizer.loaded
                                                THEN dir.tokenizer ELSE @,
                                  !.is_loaded = TRUE,
                                  !.sess = FreshSessions]
                     /\ encLock' = [encLock EXCEPT ![FreshSessions] = FreeLock]
                     /\ decLock' = [decLock EXCEPT ![FreshSessions] = FreeLock]
                     /\ memo' = NoMemo
    /\ hist' = IF dir.exists THEN NoHist ELSE hist
    /\ UNCHANGED <<call, env>>

\* lines 971-981
is_loaded(m) ==
    m.is_loaded /\ m.encoder_session # "none" /\ m.decoder_session # "none"

is_tokenizer_loaded(m) == m.tokenizer.loaded

(***************************************************************************)
(* translate, up to spawn_blocking: model.rs 401-485                       *)
(***************************************************************************)
NllbLang(tokenizer) ==
    IF tokenizer.eng_Latn # None /\ tokenizer.zho_Hans # None
    THEN [src_lang_token_id |-> tokenizer.eng_Latn,
          tgt_lang_token_id |-> tokenizer.zho_Hans,
          needs_encoder_prefix |-> FALSE, needs_decoder_prefix |-> TRUE]
    ELSE [src_lang_token_id |-> NllbSrcLangDefault,
          tgt_lang_token_id |-> NllbTgtLangDefault,
          needs_encoder_prefix |-> FALSE, needs_decoder_prefix |-> TRUE]

MBartLang ==
    [src_lang_token_id |-> MBartSrcLangId, tgt_lang_token_id |-> MBartTgtLangId,
     needs_encoder_prefix |-> TRUE, needs_decoder_prefix |-> TRUE]

ResolveLang(model_type, source_lang, target_lang, tokenizer, decoder_start_token_id) ==
    IF model_type = "marian" THEN NoLang
    ELSE IF source_lang = "eng_Latn" /\ target_lang = "zho_Hans" THEN NllbLang(tokenizer)
    ELSE IF source_lang = "en_XX" /\ target_lang = "zh_CN" THEN MBartLang
    ELSE IF source_lang = "en" /\ target_lang = "zh"
         THEN IF model_type = "mbart" THEN MBartLang
              ELSE IF model_type \in {"nllb", "m2m_100"} THEN NllbLang(tokenizer)
              ELSE NoLang
    ELSE [src_lang_token_id |-> decoder_start_token_id,
          tgt_lang_token_id |-> decoder_start_token_id,
          needs_encoder_prefix |-> FALSE, needs_decoder_prefix |-> FALSE]

CallStart(c, text, source_lang, target_lang) ==
    /\ call[c].pc = "idle"
    /\ LET started == [IdleCall EXCEPT !.text = text, !.source_lang = source_lang,
                                       !.target_lang = target_lang]
           lang == ResolveLang(tm.model_type, source_lang, target_lang, tm.tokenizer,
                               tm.decoder_start_token_id)
       IN  IF ~tm.is_loaded
           THEN /\ Set(c, [started EXCEPT !.pc = "returned", !.result = Err("not_loaded")])
                /\ UNCHANGED hist
           ELSE IF tm.encoder_session = "none" \/ tm.decoder_session = "none"
           THEN /\ Set(c, [started EXCEPT !.pc = "returned", !.result = Err("no_session")])
                /\ UNCHANGED hist
           ELSE IF ~tm.tokenizer.loaded
           THEN /\ Set(c, [started EXCEPT !.pc = "returned", !.result = Err("no_tokenizer")])
                /\ UNCHANGED hist
           ELSE /\ Set(c, [started EXCEPT
                              !.pc = "spawned",
                              !.tokenizer = tm.tokenizer,
                              !.decoder_start_token_id = tm.decoder_start_token_id,
                              !.eos_token_id = tm.eos_token_id,
                              !.vocab_size = tm.vocab_size,
                              !.sess = tm.sess,
                              !.lang = lang])
                /\ UNCHANGED hist
    /\ UNCHANGED <<tm, encLock, decLock, env, memo>>

(***************************************************************************)
(* The blocking task of translate: model.rs 485-964                        *)
(***************************************************************************)
\* Tokenizer::encode(text, true): one id per symbol that is not whitespace
PieceId(sym) == IF sym = "a" THEN 1 ELSE 3

encode(tokenizer, text) ==
    LET words == SelectNot(text, {" "})
        ids == [i \in 1..Len(words) |-> PieceId(words[i])]
    IN  (IF tokenizer.lang_prefix # None THEN <<tokenizer.lang_prefix>> ELSE <<>>)
            \o ids
            \o (IF tokenizer.eos_suffix # None THEN <<tokenizer.eos_suffix>> ELSE <<>>)

\* a prefix inserted without looking at the first id
EncoderInputPrefixTwice(ids, lang, eos_token_id) ==
    LET prefixed == IF lang.needs_encoder_prefix
                    THEN <<lang.src_lang_token_id>> \o ids ELSE ids
    IN  IF Last(prefixed) # eos_token_id THEN Append(prefixed, eos_token_id)
        ELSE prefixed

\* an EOS appended without looking at the last id
EncoderInputEosTwice(ids, lang, eos_token_id) ==
    LET prefixed == IF lang.needs_encoder_prefix /\ Head(ids) # lang.src_lang_token_id
                    THEN <<lang.src_lang_token_id>> \o ids ELSE ids
    IN  Append(prefixed, eos_token_id)

\* lines 511-525: the source-language prefix and the final EOS
EncoderInput(ids, lang, eos_token_id) ==
    LET prefixed == IF lang.needs_encoder_prefix /\ Head(ids) # lang.src_lang_token_id
                    THEN <<lang.src_lang_token_id>> \o ids ELSE ids
    IN  IF Last(prefixed) # eos_token_id THEN Append(prefixed, eos_token_id)
        ELSE prefixed

Fail(s, tag) == [s EXCEPT !.pc = "task_done", !.result = Err(tag)]

\* the task without the check of lines 487-490
TokenizeUnguarded(c) ==
    /\ call[c].pc = "spawned"
    /\ LET s == call[c]
           preprocessed_text == preprocess_text_for_translation(s.text)
           encoded == [s EXCEPT !.n_encode = @ + 1]
           ids == encode(s.tokenizer, preprocessed_text)
       IN  IF ids = <<>> THEN Set(c, Fail(encoded, "empty_ids"))
           ELSE Set(c, [encoded EXCEPT
                           !.pc = "want_enc",
                           !.input_ids = EncoderInput(ids, s.lang, s.eos_token_id)])
    /\ UNCHANGED <<tm, encLock, decLock, env, memo, hist>>

\* lines 487-544
Tokenize(c) ==
    /\ call[c].pc = "spawned"
    /\ LET s == call[c]
           preprocessed_text == preprocess_text_for_translation(s.text)
           encoded == [s EXCEPT !.n_encode = @ + 1]
           ids == encode(s.tokenizer, preprocessed_text)
       IN  IF preprocessed_text = <<>> THEN Set(c, Fail(s, "empty_text"))
           ELSE IF ids = <<>> THEN Set(c, Fail(encoded, "empty_ids"))
           ELSE Set(c, [encoded EXCEPT
                           !.pc = "want_enc",
                           !.input_ids = EncoderInput(ids, s.lang, s.eos_token_id)])
    /\ UNCHANGED <<tm, encLock, decLock, env, memo, hist>>

\* a lock that does not wait for its holder
LockEncoderNoWait(c) ==
    /\ call[c].pc = "want_enc"
    /\ IF encLock[call[c].sess].poisoned
       THEN /\ Set(c, Fail(call[c], "enc_lock"))
            /\ UNCHANGED encLock
       ELSE /\ Set(c, [call[c] EXCEPT !.pc = "encoder"])
            /\ encLock' = [encLock EXCEPT ![call[c].sess].holder = c]
    /\ UNCHANGED <<tm, decLock, env, memo, hist>>

\* lines 546-547: Mutex::lock on the encoder session
LockEncoder(c) ==
    /\ call[c].pc = "want_enc"
    /\ encLock[call[c].sess].holder = 0
    /\ IF encLock[call[c].sess].poisoned
       THEN /\ Set(c, Fail(call[c], "enc_lock"))
            /\ UNCHANGED encLock
       ELSE /\ Set(c, [call[c] EXCEPT !.pc = "encoder"])
            /\ encLock' = [encLock EXCEPT ![call[c].sess].holder = c]
    /\ UNCHANGED <<tm, decLock, env, memo, hist>>

\* the outcomes a run may have: any of the pool, or the one the fixed
\* function already gave for this input
Choices(table, key, all) ==
    IF pool.fixed /\ \E e \in table : e.in = key
    THEN {e.out : e \in {x \in table : x.in = key}}
    ELSE all

Remember(table, key, out) ==
    IF pool.fixed THEN table \cup {[in |-> key, out |-> out]} ELSE table

\* guards that are never dropped
ReleasedNever(lock, c, panicked) == lock

\* a guard dropped by a panic poisons its mutex
Released(lock, c, panicked) ==
    [g \in DOMAIN lock |->
        IF lock[g].holder = c
        THEN [holder |-> 0, poisoned |-> lock[g].poisoned \/ panicked]
        ELSE lock[g]]

\* lines 551-585: the last_hidden_state the encoder returns for input_ids,
\* one vector for each position, copied into encoder_hidden_states_vec
Hidden(input_ids) == [i \in 1..Len(input_ids) |-> <<"h", i, input_ids[i]>>]

\* lines 551-600: the encoder run and the checks on its output
RunEncoder(c, out) ==
    /\ call[c].pc = "encoder"
    /\ out \in Choices(memo.enc, call[c].input_ids, pool.encs)
    /\ memo' = [memo EXCEPT !.enc = Remember(@, call[c].input_ids, out)]
    /\ LET ran == [call[c] EXCEPT !.n_encoder = @ + 1, !.run_failed = (out = "err"),
                                  !.shape_mismatch = (out \in {"rank2", "len_mismatch"})]
       IN  CASE out = "ok" ->
                   /\ Set(c, [ran EXCEPT !.pc = "want_dec",
                                          !.encoder_hidden_states =
                                              Hidden(call[c].input_ids)])
                   /\ UNCHANGED encLock
             [] out = "rank2" ->
                   \* encoder_hidden_states_shape[2] is out of bounds
                   /\ Set(c, [ran EXCEPT !.pc = "task_panicked"])
                   /\ encLock' = Released(encLock, c, TRUE)
             [] OTHER ->
                   /\ Set(c, Fail(ran, "encoder_" \o out))
                   /\ encLock' = Released(encLock, c, FALSE)
    /\ UNCHANGED <<tm, decLock, env, hist>>

\* a language-prefixed seed that starts with decoder_start instead of eos,
\* and a plain seed that starts with eos
SeedSwapped(s) ==
    IF s.lang.needs_decoder_prefix
    THEN <<s.decoder_start_token_id, s.lang.tgt_lang_token_id>>
    ELSE <<s.eos_token_id>>

\* lines 606-613
Seed(s) ==
    IF s.lang.needs_decoder_prefix
    THEN <<s.eos_token_id, s.lang.tgt_lang_token_id>>
    ELSE <<s.decoder_start_token_id>>

\* lines 603-623: Mutex::lock on the decoder session, then the Init state
LockDecoder(c) ==
    /\ call[c].pc = "want_dec"
    /\ decLock[call[c].sess].holder = 0
    /\ IF decLock[call[c].sess].poisoned
       THEN /\ Set(c, Fail(call[c], "dec_lock"))
            /\ encLock' = Released(encLock, c, FALSE)
            /\ UNCHANGED decLock
       ELSE /\ Set(c, [call[c] EXCEPT !.pc = "stepping",
                                      !.generated_ids = Seed(call[c]),
                                      !.consecutive_same = 0,
                                      !.last_token = None])
            /\ decLock' = [decLock EXCEPT ![call[c].sess].holder = c]
            /\ UNCHANGED encLock
    /\ UNCHANGED <<tm, env, memo, hist>>

(***************************************************************************)
(* One iteration of the decode loop: model.rs 628-878                      *)
(***************************************************************************)
Break(s, why) == [s EXCEPT !.pc = "loop_done", !.exit = why]

\* the loop written 0..=config.max_length
ContinueInclusive(s) ==
    IF s.step + 1 <= max_length THEN [s EXCEPT !.step = @ + 1]
    ELSE Break([s EXCEPT !.step = @ + 1], "max_length")

\* a loop without a bound on its iterations
ContinueUnbounded(s) == [s EXCEPT !.step = @ + 1]

\* for step in 0..config.max_length
Continue(s) ==
    IF s.step + 1 < max_length THEN [s EXCEPT !.step = @ + 1]
    ELSE Break([s EXCEPT !.step = @ + 1], "max_length")

\* an iteration that pushes the EOS candidate before it leaves the loop
IterationPushEos(s, row, sampled) ==
    LET last_logits == apply_repetition_penalty(ScaleRow(row), s.generated_ids)
        first == SelectCandidate(last_logits, s.text, sampled)
        hit == has_repeated_ngram(s.generated_ids, no_repeat_ngram_size, first)
        next_token_id == IF hit THEN NgramFallback(last_logits, s.generated_ids)
                         ELSE first
        same == next_token_id = s.last_token
        chosen == [s EXCEPT
                      !.choices = IF pool.fixed THEN Append(@, next_token_id) ELSE @,
                      !.consecutive_same = IF same THEN @ + 1 ELSE 0]
    IN  IF hit /\ next_token_id = None THEN Break(s, "ngram_exhausted")
        ELSE IF same /\ chosen.consecutive_same >= repetition_threshold
        THEN Break(chosen, "repeat_run")
        ELSE IF next_token_id = s.eos_token_id
        THEN Break([chosen EXCEPT !.generated_ids = Append(@, next_token_id)], "eos")
        ELSE IF next_token_id = s.decoder_start_token_id
        THEN IF s.last_token = next_token_id THEN Break(chosen, "pad_repeat")
             ELSE Continue([chosen EXCEPT !.last_token = next_token_id])
        ELSE IF next_token_id < 0 \/ next_token_id >= s.vocab_size
        THEN Continue(chosen)
        ELSE LET pushed == [chosen EXCEPT
                               !.last_token = next_token_id,
                               !.generated_ids = Append(@, next_token_id)]
             IN  IF Len(pushed.generated_ids) > SafetyStopLen
                 THEN Break(pushed, "safety")
                 ELSE Continue(pushed)

\* an iteration that goes on to the next step on every start / pad candidate
IterationPadContinues(s, row, sampled) ==
    LET last_logits == apply_repetition_penalty(ScaleRow(row), s.generated_ids)
        first == SelectCandidate(last_logits, s.text, sampled)
        hit == has_repeated_ngram(s.generated_ids, no_repeat_ngram_size, first)
        next_token_id == IF hit THEN NgramFallback(last_logits, s.generated_ids)
                         ELSE first
        same == next_token_id = s.last_token
        chosen == [s EXCEPT
                      !.choices = IF pool.fixed THEN Append(@, next_token_id) ELSE @,
                      !.consecutive_same = IF same THEN @ + 1 ELSE 0]
    IN  IF hit /\ next_token_id = None THEN Break(s, "ngram_exhausted")
        ELSE IF same /\ chosen.consecutive_same >= repetition_threshold
        THEN Break(chosen, "repeat_run")
        ELSE IF next_token_id = s.eos_token_id THEN Break(chosen, "eos")
        ELSE IF next_token_id = s.decoder_start_token_id
        THEN Continue([chosen EXCEPT !.last_token = next_token_id])
        ELSE IF next_token_id < 0 \/ next_token_id >= s.vocab_size
        THEN Continue(chosen)
        ELSE LET pushed == [chosen EXCEPT
                               !.last_token = next_token_id,
                               !.generated_ids = Append(@, next_token_id)]
             IN  IF Len(pushed.generated_ids) > SafetyStopLen
                 THEN Break(pushed, "safety")
                 ELSE Continue(pushed)

\* an iteration whose skipped candidates do not use up a step of the loop
IterationSkipFree(s, row, sampled) ==
    LET last_logits == apply_repetition_penalty(ScaleRow(row), s.generated_ids)
        first == SelectCandidate(last_logits, s.text, sampled)
        hit == has_repeated_ngram(s.generated_ids, no_repeat_ngram_size, first)
        next_token_id == IF hit THEN NgramFallback(last_logits, s.generated_ids)
                         ELSE first
        same == next_token_id = s.last_token
        chosen == [s EXCEPT
                      !.choices = IF pool.fixed THEN Append(@, next_token_id) ELSE @,
                      !.consecutive_same = IF same THEN @ + 1 ELSE 0]
    IN  IF hit /\ next_token_id = None THEN Break(s, "ngram_exhausted")
        ELSE IF same /\ chosen.consecutive_same >= repetition_threshold
        THEN Break(chosen, "repeat_run")
        ELSE IF next_token_id = s.eos_token_id THEN Break(chosen, "eos")
        ELSE IF next_token_id = s.decoder_start_token_id
        THEN IF s.last_token = next_token_id THEN Break(chosen, "pad_repeat")
             ELSE [chosen EXCEPT !.last_token = next_token_id]
        ELSE IF next_token_id < 0 \/ next_token_id >= s.vocab_size
        THEN chosen
        ELSE LET pushed == [chosen EXCEPT
                               !.last_token = next_token_id,
                               !.generated_ids = Append(@, next_token_id)]
             IN  IF Len(pushed.generated_ids) > SafetyStopLen
                 THEN Break(pushed, "safety")
                 ELSE Continue(pushed)

\* an iteration whose safety stop comes one id later
IterationLateStop(s, row, sampled) ==
    LET last_logits == apply_repetition_penalty(ScaleRow(row), s.generated_ids)
        first == SelectCandidate(last_logits, s.text, sampled)
        hit == has_repeated_ngram(s.generated_ids, no_repeat_ngram_size, first)
        next_token_id == IF hit THEN NgramFallback(last_logits, s.generated_ids)
                         ELSE first
        same == next_token_id = s.last_token
        chosen == [s EXCEPT
                      !.choices = IF pool.fixed THEN Append(@, next_token_id) ELSE @,
                      !.consecutive_same = IF same THEN @ + 1 ELSE 0]
    IN  IF hit /\ next_token_id = None THEN Break(s, "ngram_exhausted")
        ELSE IF same /\ chosen.consecutive_same >= repetition_threshold
        THEN Break(chosen, "repeat_run")
        ELSE IF next_token_id = s.eos_token_id THEN Break(chosen, "eos")
        ELSE IF next_token_id = s.decoder_start_token_id
        THEN IF s.last_token = next_token_id THEN Break(chosen, "pad_repeat")
             ELSE Continue([chosen EXCEPT !.last_token = next_token_id])
        ELSE IF next_token_id < 0 \/ next_token_id >= s.vocab_size
        THEN Continue(chosen)
        ELSE LET pushed == [chosen EXCEPT
                               !.last_token = next_token_id,
                               !.generated_ids = Append(@, next_token_id)]
             IN  IF Len(pushed.generated_ids) > SafetyStopLen + 1
                 THEN Break(pushed, "safety")
                 ELSE Continue(pushed)

\* lines 763-877, on the logits row of the last position
Iteration(s, row, sampled) ==
    LET last_logits == apply_repetition_penalty(ScaleRow(row), s.generated_ids)
        first == SelectCandidate(last_logits, s.text, sampled)
        hit == has_repeated_ngram(s.generated_ids, no_repeat_ngram_size, first)
        next_token_id == IF hit THEN NgramFallback(last_logits, s.generated_ids)
                         ELSE first
        same == next_token_id = s.last_token
        chosen == [s EXCEPT
                      !.choices = IF pool.fixed THEN Append(@, next_token_id) ELSE @,
                      !.consecutive_same = IF same THEN @ + 1 ELSE 0]
    IN  IF hit /\ next_token_id = None THEN Break(s, "ngram_exhausted")
        ELSE IF same /\ chosen.consecutive_same >= repetition_threshold
        THEN Break(chosen, "repeat_run")
        ELSE IF next_token_id = s.eos_token_id THEN Break(chosen, "eos")
        ELSE IF next_token_id = s.decoder_start_token_id
        THEN IF s.last_token = next_token_id THEN Break(chosen, "pad_repeat")
             ELSE Continue([chosen EXCEPT !.last_token = next_token_id])
        ELSE IF next_token_id < 0 \/ next_token_id >= s.vocab_size
        THEN Continue(chosen)
        ELSE LET pushed == [chosen EXCEPT
                               !.last_token = next_token_id,
                               !.generated_ids = Append(@, next_token_id)]
             IN  IF Len(pushed.generated_ids) > SafetyStopLen
                 THEN Break(pushed, "safety")
                 ELSE Continue(pushed)

\* a decoder run on the last generated token only
DecoderInputsLastToken(s) ==
    [input_ids |-> <<Last(s.generated_ids)>>,
     encoder_hidden_states |-> s.encoder_hidden_states,
     encoder_attention_mask |-> [i \in 1..Len(s.input_ids) |-> 1]]

\* lines 615-668: the inputs of a decoder run
DecoderInputs(s) ==
    [input_ids |-> s.generated_ids,
     encoder_hidden_states |-> s.encoder_hidden_states,
     encoder_attention_mask |-> [i \in 1..Len(s.input_ids) |-> 1]]

\* the draws sample_top_p may return: any index of the row
Samples(s, row) ==
    IF UsesSampling(apply_repetition_penalty(ScaleRow(row), s.generated_ids), s.text)
    THEN DOMAIN row ELSE {0}

\* a decoder step that keeps the tokens generated so far when the run fails
DecodeStepPartial(c, out) ==
    /\ call[c].pc = "stepping"
    /\ LET s == call[c]
           key == <<s.input_ids, s.generated_ids>>
           ran == [s EXCEPT
                      !.n_decoder = @ + 1,
                      !.run_failed = (out.kind = "err"),
                      !.shape_mismatch = @ \/ out.kind \in {"zero_len", "wide", "short"},
                      !.last_dec_input = DecoderInputs(s).input_ids,
                      !.first_dec_input = IF s.n_decoder = 0
                                          THEN DecoderInputs(s).input_ids ELSE @,
                      !.dec_enc = @ \cup
                          {[encoder_hidden_states |->
                                DecoderInputs(s).encoder_hidden_states,
                            encoder_attention_mask |->
                                DecoderInputs(s).encoder_attention_mask]}]
           row == RowOf(out.rs, s.vocab_size)
       IN  /\ out \in Choices(memo.dec, key, DecoderOutcomes(pool.rows))
           /\ out.kind \in pool.decs
           /\ out.kind \in {"ok", "wide"} =>
                  out.rs.a < s.vocab_size /\ out.rs.b < s.vocab_size
           /\ memo' = [memo EXCEPT !.dec = Remember(@, key, out)]
           /\ CASE out.kind \in {"ok", "wide"} ->
                      /\ \E sampled \in Samples(s, row) : Set(c, Iteration(ran, row, sampled))
                      /\ UNCHANGED <<encLock, decLock>>
                [] out.kind = "zero_len" ->
                      \* (decoder_seq_len - 1) * vocab_size with decoder_seq_len = 0
                      /\ Set(c, [ran EXCEPT !.pc = "task_panicked"])
                      /\ encLock' = Released(encLock, c, TRUE)
                      /\ decLock' = Released(decLock, c, TRUE)
                [] out.kind = "err" ->
                      /\ Set(c, Break(ran, "decoder_error"))
                      /\ UNCHANGED <<encLock, decLock>>
                [] OTHER ->
                      /\ Set(c, Fail(ran, "logits_short"))
                      /\ encLock' = Released(encLock, c, FALSE)
                      /\ decLock' = Released(decLock, c, FALSE)
    /\ UNCHANGED <<tm, env, hist>>

\* lines 628-878: one decoder run and the iteration on its logits
DecodeStep(c, out) ==
    /\ call[c].pc = "stepping"
    /\ LET s == call[c]
           key == <<s.input_ids, s.generated_ids>>
           ran == [s EXCEPT
                      !.n_decoder = @ + 1,
                      !.run_failed = (out.kind = "err"),
                      !.shape_mismatch = @ \/ out.kind \in {"zero_len", "wide", "short"},
                      !.last_dec_input = DecoderInputs(s).input_ids,
                      !.first_dec_input = IF s.n_decoder = 0
                                          THEN DecoderInputs(s).input_ids ELSE @,
                      !.dec_enc = @ \cup
                          {[encoder_hidden_states |->
                                DecoderInputs(s).encoder_hidden_states,
                            encoder_attention_mask |->
                                DecoderInputs(s).encoder_attention_mask]}]
           row == RowOf(out.rs, s.vocab_size)
       IN  /\ out \in Choices(memo.dec, key, DecoderOutcomes(pool.rows))
           /\ out.kind \in pool.decs
           /\ out.kind \in {"ok", "wide"} =>
                  out.rs.a < s.vocab_size /\ out.rs.b < s.vocab_size
           /\ memo' = [memo EXCEPT !.dec = Remember(@, key, out)]
           /\ CASE out.kind \in {"ok", "wide"} ->
                      /\ \E sampled \in Samples(s, row) : Set(c, Iteration(ran, row, sampled))
                      /\ UNCHANGED <<encLock, decLock>>
                [] out.kind = "zero_len" ->
                      \* (decoder_seq_len - 1) * vocab_size with decoder_seq_len = 0
                      /\ Set(c, [ran EXCEPT !.pc = "task_panicked"])
                      /\ encLock' = Released(encLock, c, TRUE)
                      /\ decLock' = Released(decLock, c, TRUE)
                [] OTHER ->
                      /\ Set(c, Fail(ran, IF out.kind = "err" THEN "decoder_run"
                                          ELSE "logits_short"))
                      /\ encLock' = Released(encLock, c, FALSE)
                      /\ decLock' = Released(decLock, c, FALSE)
    /\ UNCHANGED <<tm, env, hist>>

(***************************************************************************)
(* Detokenization: model.rs 880-963                                        *)
(***************************************************************************)
RECURSIVE Keep(_, _, _)
Keep(ids, drop, vocab_size) ==
    IF ids = <<>> THEN <<>>
    ELSE IF Head(ids) \notin drop /\ Head(ids) >= 0 /\ Head(ids) < vocab_size
         THEN <<Head(ids)>> \o Keep(Tail(ids), drop, vocab_size)
         ELSE Keep(Tail(ids), drop, vocab_size)

\* a PlainSeed output that is cut at eos_token_id only
OutputIdsCutAtEos(s) ==
    IF s.lang.needs_decoder_prefix
    THEN SelectNot(TakeUntil(Drop(s.generated_ids, 2), {s.eos_token_id}), {BosId, PadId})
    ELSE LET body == TakeUntil(Drop(s.generated_ids, 1), {s.eos_token_id})
             strict == Keep(body, {s.decoder_start_token_id, s.eos_token_id}, s.vocab_size)
         IN  IF strict = <<>> /\ Len(s.generated_ids) > 1
             THEN Keep(body, {s.decoder_start_token_id}, s.vocab_size)
             ELSE strict

\* lines 882-927: the ids handed to the tokenizer
OutputIds(s) ==
    IF s.lang.needs_decoder_prefix
    THEN SelectNot(TakeUntil(Drop(s.generated_ids, 2), {s.eos_token_id}), {BosId, PadId})
    ELSE LET body == TakeUntil(Drop(s.generated_ids, 1), {s.eos_token_id, 0})
             strict == Keep(body, {s.decoder_start_token_id, s.eos_token_id}, s.vocab_size)
         IN  IF strict = <<>> /\ Len(s.generated_ids) > 1
             THEN Keep(body, {s.decoder_start_token_id}, s.vocab_size)
             ELSE strict

\* Tokenizer::decode(ids, true): one piece per id
Piece(id) ==
    CASE id = 0 -> "z" [] id = 1 -> "a" [] id = 2 -> "b" [] id = 3 -> "_" [] OTHER -> "c"

decode(ids) == [i \in 1..Len(ids) |-> Piece(ids[i])]

\* lines 939-948: the SentencePiece marker becomes a space, then trim
Cleanup(decoded) ==
    TrimMatches([i \in 1..Len(decoded) |-> IF decoded[i] = "_" THEN " " ELSE decoded[i]],
                {" "})

\* detokenization without the check of lines 950-961
DetokenizeNoEmptyCheck(c) ==
    /\ call[c].pc = "loop_done"
    /\ LET s == call[c]
           output_ids == OutputIds(s)
           cleaned == Cleanup(decode(output_ids))
           t == [s EXCEPT !.output_ids = output_ids,
                          !.n_decode = IF output_ids = <<>> THEN @ ELSE @ + 1]
       IN  IF output_ids = <<>> THEN Set(c, Fail(t, "empty_ids_out"))
           ELSE Set(c, [t EXCEPT !.pc = "task_done", !.result = Ok(cleaned)])
    /\ encLock' = Released(encLock, c, FALSE)
    /\ decLock' = Released(decLock, c, FALSE)
    /\ UNCHANGED <<tm, env, memo, hist>>

Detokenize(c) ==
    /\ call[c].pc = "loop_done"
    /\ LET s == call[c]
           output_ids == OutputIds(s)
           cleaned == Cleanup(decode(output_ids))
           t == [s EXCEPT !.output_ids = output_ids,
                          !.n_decode = IF output_ids = <<>> THEN @ ELSE @ + 1]
       IN  IF output_ids = <<>> THEN Set(c, Fail(t, "empty_ids_out"))
           ELSE IF cleaned = <<>> THEN Set(c, Fail(t, "empty_translation"))
           ELSE Set(c, [t EXCEPT !.pc = "task_done", !.result = Ok(cleaned)])
    /\ encLock' = Released(encLock, c, FALSE)
    /\ decLock' = Released(decLock, c, FALSE)
    /\ UNCHANGED <<tm, env, memo, hist>>

(***************************************************************************)
(* The end of translate: model.rs 965-968                                  *)
(***************************************************************************)
\* the blocking task has ended: its JoinHandle yields the result to the
\* awaiting future, or to nobody when that future was dropped
Join(c) ==
    /\ call[c].pc \in {"task_done", "task_panicked"}
    /\ IF call[c].abandoned
       THEN Set(c, IdleCall)
       ELSE Set(c, [call[c] EXCEPT
                       !.pc = "returned",
                       !.result = IF call[c].pc = "task_panicked" THEN Err("join") ELSE @])
    /\ UNCHANGED <<tm, encLock, decLock, env, memo, hist>>

\* the pc values of a call whose blocking task was spawned and not yet joined
TaskStates ==
    {"spawned", "want_enc", "encoder", "want_dec", "stepping", "loop_done",
     "task_done", "task_panicked"}

\* dropping the future would abort the blocking task and free its locks
AbandonCancels(c) ==
    /\ call[c].pc \in TaskStates
    /\ ~call[c].abandoned
    /\ Set(c, IdleCall)
    /\ encLock' = Released(encLock, c, FALSE)
    /\ decLock' = Released(decLock, c, FALSE)
    /\ UNCHANGED <<tm, env, memo, hist>>

\* the caller drops the translate future while it awaits the blocking task:
\* dropping a JoinHandle detaches the task, which runs on
Abandon(c) ==
    /\ call[c].pc \in TaskStates
    /\ ~call[c].abandoned
    /\ Set(c, [call[c] EXCEPT !.abandoned = TRUE])
    /\ UNCHANGED <<tm, encLock, decLock, env, memo, hist>>

Input(s) == <<s.text, s.source_lang, s.target_lang>>

Outcome(s) == [result |-> s.result, choices |-> s.choices]

\* the caller takes the result
Return(c) ==
    /\ call[c].pc = "returned"
    /\ call' = [call EXCEPT ![c] = IdleCall]
    /\ LET s == call[c]
           e == [in |-> Input(s), out |-> Outcome(s)]
       IN  hist' = IF ~pool.fixed THEN hist
                   ELSE [hist EXCEPT
                            !.seen = IF \E x \in @ : x.in = e.in THEN @ ELSE @ \cup {e},
                            !.first = IF @ = {} THEN {e} ELSE @]
    /\ UNCHANGED <<tm, encLock, decLock, env, memo>>

(***************************************************************************)
(* Specifications.                                                         *)
(***************************************************************************)
TextsMain ==
    {<<>>, <<" ", " ", " ">>, <<"a">>, <<"[", "a", "]">>, <<"(", "a", ")">>,
     <<".">>, <<"<unk>">>, <<"[", "a">>}

TextsAll == TextsUpTo(MaxTextLen)

\* the texts a pool names
Texts ==
    CASE pool.texts = "all" -> TextsAll
      [] pool.texts = "two" -> {<<"a">>, <<" ", " ", " ">>}
      [] OTHER -> TextsMain

PoolMain ==
    [callers |-> {1}, texts |-> "main", langs |-> LangPairs,
     dirs |-> {DirMarian, DirMBart, DirNllb, DirMissing},
     rows |-> RowSpecs(0..4, {0, 6}), encs |-> EncoderOutcomes, fixed |-> FALSE, decs |-> SoundDecoder]

InitEngine(p) ==
    /\ pool = p
    /\ tm = NewModel
    /\ encLock = NoLocks
    /\ decLock = NoLocks
    /\ call = [c \in p.callers |-> IdleCall]
    /\ memo = NoMemo
    /\ hist = NoHist

InitWith(p) == InitEngine(p) /\ probe = NoProbe

Init == InitWith(PoolMain)

Next ==
    \/ \E dir \in pool.dirs : LoadModel(dir)
    \/ \E c \in Callers :
           /\ call[c].pc = "idle"
           /\ \E text \in Texts, lp \in pool.langs : CallStart(c, text, lp[1], lp[2])
    \/ \E c \in Callers : Tokenize(c)
    \/ \E c \in Callers : LockEncoder(c)
    \/ \E c \in Callers :
           /\ call[c].pc = "encoder"
           /\ \E out \in EncoderOutcomes : RunEncoder(c, out)
    \/ \E c \in Callers : LockDecoder(c)
    \/ \E c \in Callers :
           /\ call[c].pc = "stepping"
           /\ \E out \in DecoderOutcomes(pool.rows) : DecodeStep(c, out)
    \/ \E c \in Callers : Detokenize(c)
    \/ \E c \in Callers : Join(c)
    \/ \E c \in Callers : Return(c)

Spec == Init /\ [][Next]_vars

\* every text of at most MaxTextLen symbols, on one model of each seed family
PoolText ==
    [callers |-> {1}, texts |-> "all", langs |-> {<<"en", "zh">>},
     dirs |-> {DirMarian, DirMBart},
     rows |-> {r \in RowSpecs({0, 2}, {0}) : r.a = 2}, encs |-> {"ok", "err"},
     fixed |-> FALSE, decs |-> SoundDecoder]

InitText == InitWith(PoolText)

SpecText == InitText /\ [][Next]_vars

\* two callers sharing one mBART model, with two language pairs
PoolConc ==
    [callers |-> {1, 2}, texts |-> "two", langs |-> {<<"en", "zh">>, <<"fr", "de">>},
     dirs |-> {DirMBart}, rows |-> RowSpecs({2, 3}, {0}), encs |-> {"ok", "err"},
     fixed |-> FALSE, decs |-> SoundDecoder]

InitConc == InitWith(PoolConc)

SpecConc == InitConc /\ [][Next]_vars

\* an encoder and a decoder that are fixed functions of their inputs
PoolDet ==
    [callers |-> {1}, texts |-> "two", langs |-> {<<"en", "zh">>},
     dirs |-> {DirMBart, DirMarian}, rows |-> {r \in RowSpecs({2, 3}, {0}) : r.a = 3},
     encs |-> {"ok", "rank2"}, fixed |-> TRUE, decs |-> SoundDecoder]

InitDet == InitWith(PoolDet)

SpecDet == InitDet /\ [][Next]_vars

\* a decoder whose top-scoring token is id 3 on every step
PoolRepeat ==
    [callers |-> {1}, texts |-> "main", langs |-> {<<"en", "zh">>},
     dirs |-> {DirMarian, DirMBart}, rows |-> {r \in RowSpecs(0..4, {0}) : r.a = 3},
     encs |-> {"ok", "err"}, fixed |-> FALSE, decs |-> SoundDecoder]

InitRepeat == InitWith(PoolRepeat)

SpecRepeat == InitRepeat /\ [][Next]_vars

\* a vocabulary small enough for every entry to repeat an n-gram
PoolExhaust ==
    [callers |-> {1}, texts |-> "main", langs |-> {<<"en", "zh">>},
     dirs |-> {DirTiny}, rows |-> RowSpecs({0, 1}, {0}), encs |-> {"ok", "err"},
     fixed |-> FALSE, decs |-> SoundDecoder]

InitExhaust == InitWith(PoolExhaust)

SpecExhaust == InitExhaust /\ [][Next]_vars

\* a decoder whose logits need not have the shape [1, T, vocab_size]
PoolShape ==
    [callers |-> {1}, texts |-> "two", langs |-> {<<"en", "zh">>},
     dirs |-> {DirMarian}, rows |-> RowSpecs({0, 1, 2}, {0}), encs |-> EncoderOutcomes,
     fixed |-> FALSE, decs |-> {"ok", "err", "zero_len", "wide", "short"}]

InitShape == InitWith(PoolShape)

SpecShape == InitShape /\ [][Next]_vars

\* a Marian decoder that may put its start/pad token (4) on top of a row
PoolSkip ==
    [callers |-> {1}, texts |-> "two", langs |-> {<<"en", "zh">>},
     dirs |-> {DirMarian}, rows |-> RowSpecs({1, 3, 4}, {0}), encs |-> {"ok", "err"},
     fixed |-> FALSE, decs |-> SoundDecoder]

InitSkip == InitWith(PoolSkip)

SpecSkip == InitSkip /\ [][Next]_vars

\* the thread of the blocking task runs on, and the encoder and decoder runs
\* return: weak fairness of every step of the task.  For Tokenize and
\* Detokenize, which are enabled exactly at one pc, the fairness condition is
\* written out with that pc for the ENABLED predicate.
TaskFairness(c) ==
    /\ []<>(call[c].pc # "spawned") \/ []<><<Tokenize(c)>>_vars
    /\ WF_vars(LockEncoder(c))
    /\ WF_vars(\E out \in EncoderOutcomes : RunEncoder(c, out))
    /\ WF_vars(LockDecoder(c))
    /\ WF_vars(\E out \in DecoderOutcomes(PoolSkip.rows) : DecodeStep(c, out))
    /\ []<>(call[c].pc # "loop_done") \/ []<><<Detokenize(c)>>_vars

SpecSkipFair == SpecSkip /\ \A c \in PoolSkip.callers : TaskFairness(c)

\* model directories that load, that load without a tokenizer, and that do
\* not load
PoolLoad ==
    [callers |-> {1}, texts |-> "two", langs |-> {<<"en", "zh">>},
     dirs |-> {DirMarian, DirMBart, DirNoTokenizer, DirNoOnnx, DirMissing},
     rows |-> {r \in RowSpecs({0, 1}, {0}) : r.a = 1}, encs |-> {"ok", "err"},
     fixed |-> FALSE, decs |-> SoundDecoder]

InitLoad == InitWith(PoolLoad)

SpecLoad == InitLoad /\ [][Next]_vars

\* every language pair on every model family, with tokenizers that do and
\* do not put the language code and the EOS around the pieces
PoolPrefix ==
    [callers |-> {1}, texts |-> "two", langs |-> LangPairs,
     dirs |-> {DirMarian, DirMBart, DirMBartBare, DirNllb},
     rows |-> {r \in RowSpecs({2, 3}, {0}) : r.a = 2}, encs |-> {"ok", "err"},
     fixed |-> FALSE, decs |-> SoundDecoder]

InitPrefix == InitWith(PoolPrefix)

SpecPrefix == InitPrefix /\ [][Next]_vars

\* two callers that may drop their translate futures, and a model that may
\* be loaded again while a detached task runs
PoolAbandon ==
    [callers |-> {1, 2}, texts |-> "two", langs |-> {<<"en", "zh">>},
     dirs |-> {DirMBart}, rows |-> {r \in RowSpecs({2, 3}, {0}) : r.a = 3},
     encs |-> {"ok", "err"}, fixed |-> FALSE, decs |-> SoundDecoder]

InitAbandon == InitWith(PoolAbandon)

NextAbandon ==
    \/ Next
    \/ \E c \in Callers : Abandon(c)

SpecAbandon == InitAbandon /\ [][NextAbandon]_vars

\* apply_repetition_penalty on its own: a row of two logits, and a token
\* that occurs k and k + 1 times in generated_ids
PenaltyInputs ==
    [phase : {"in"}, logit : (0 - PenMaxLogit)..PenMaxLogit, k : 0..PenMaxK,
     token : {0, 1}]

InitPen == InitEngine(PoolMain) /\ probe \in PenaltyInputs

Occurrences(token, k) == [i \in 1..k |-> token]

ApplyPenalty ==
    /\ probe.phase = "in"
    /\ LET row == ScaleRow([i \in 0..1 |-> IF i = probe.token THEN probe.logit ELSE 0])
           seed == <<DefaultStartEosId>>
       IN  probe' = [phase |-> "out", logit |-> probe.logit, k |-> probe.k,
                     token |-> probe.token,
                     before |-> row[probe.token],
                     with_k |-> apply_repetition_penalty(
                                    row, seed \o Occurrences(probe.token, probe.k))
                                    [probe.token],
                     with_k1 |-> apply_repetition_penalty(
                                     row, seed \o Occurrences(probe.token, probe.k + 1))
                                     [probe.token]]
    /\ UNCHANGED <<tm, encLock, decLock, call, pool, memo, hist>>

NextPen == ApplyPenalty

SpecPen == InitPen /\ [][NextPen]_vars

(***************************************************************************)
(* The rough path: rough.rs translate_rough over ctranslate2.rs            *)
(***************************************************************************)
\* a CTranslate2 model directory: it exists, it holds
\* sentencepiece.bpe.model, and tokenizer and translator load from it
Ct2Good == [name |-> "ct2", exists |-> TRUE, spm |-> TRUE, loads |-> TRUE]

Ct2Dirs ==
    {Ct2Good,
     [Ct2Good EXCEPT !.name = "ct2_missing", !.exists = FALSE],
     [Ct2Good EXCEPT !.name = "ct2_no_spm", !.spm = FALSE],
     [Ct2Good EXCEPT !.name = "ct2_broken", !.loads = FALSE]}

RoughTexts ==
    {<<>>, <<" ">>, <<" ", " ">>, <<"a">>, <<" ", "a">>, <<"a", " ", "a">>}

RoughLangs == {"zh", "en", "xx"}

\* what Translator::translate_batch_with_target_prefix returns for one
\* source: a translation (possibly empty), an error, or no result at all
Ct2Outcomes ==
    {[kind |-> "ok", text |-> <<"c">>], [kind |-> "ok", text |-> <<>>],
     [kind |-> "err", text |-> <<>>], [kind |-> "none", text |-> <<>>]}

RoughCallers == {1, 2}

\* TranslationResult { translated_text, source: Rough, confidence }
RoughOk(text, confidence) ==
    [ok |-> TRUE, translated_text |-> text, confidence |-> confidence, error |-> ""]

\* TranslationError::LocalError(msg)
LocalError(msg) ==
    [ok |-> FALSE, translated_text |-> <<>>, confidence |-> "", error |-> msg]

IdleRough ==
    [pc |-> "idle", text |-> <<>>, target_lang |-> "", result |-> LocalError(""),
     \* observations: calls of is_loaded, of translate_batch, of the translator
     n_is_loaded |-> 0, n_translate_batch |-> 0, n_translator |-> 0,
     loaded_at_start |-> FALSE]

\* CT2Translator::new and no request
NoRough ==
    [phase |-> "rough", translator |-> "none", model_path |-> "none",
     last_load |-> "none",
     req |-> [r \in RoughCallers |-> IdleRough]]

InitRough == InitEngine(PoolMain) /\ probe = NoRough

SetRough(r, upd) == probe' = [probe EXCEPT !.req[r] = upd]

\* a load that drops the translator it holds before it tries the directory
load_ct2_model_clears(dir) ==
    probe' = IF dir.exists /\ dir.spm /\ dir.loads
             THEN [probe EXCEPT !.translator = dir.name, !.model_path = dir.name,
                                !.last_load = "ok"]
             ELSE [probe EXCEPT !.translator = "none", !.model_path = "none",
                                !.last_load = "err"]

\* ctranslate2.rs 38-69 behind load_ct2_model (196-200)
load_ct2_model(dir) ==
    probe' = IF dir.exists /\ dir.spm /\ dir.loads
             THEN [probe EXCEPT !.translator = dir.name, !.model_path = dir.name,
                                !.last_load = "ok"]
             ELSE [probe EXCEPT !.last_load = "err"]

\* a translate_rough without the check of rough.rs 17-23
RoughStartUnguarded(r, text, target_lang) ==
    /\ probe.req[r].pc = "idle"
    /\ SetRough(r, [IdleRough EXCEPT !.text = text, !.target_lang = target_lang,
                                     !.loaded_at_start = probe.translator # "none",
                                     !.pc = "is_loaded"])

\* rough.rs 11-23: the call and its empty-text exit
RoughStart(r, text, target_lang) ==
    /\ probe.req[r].pc = "idle"
    /\ LET started == [IdleRough EXCEPT !.text = text, !.target_lang = target_lang,
                                        !.loaded_at_start = probe.translator # "none"]
       IN  IF TrimMatches(text, {" "}) = <<>>
           THEN SetRough(r, [started EXCEPT !.pc = "returned",
                                            !.result = RoughOk(<<>>, "1.0")])
           ELSE SetRough(r, [started EXCEPT !.pc = "is_loaded"])

\* a translate_rough that hands the text back when no model is loaded
RoughIsLoadedEchoes(r) ==
    /\ probe.req[r].pc = "is_loaded"
    /\ LET asked == [probe.req[r] EXCEPT !.n_is_loaded = @ + 1]
       IN  IF probe.translator = "none"
           THEN SetRough(r, [asked EXCEPT !.pc = "returned",
                                          !.result = RoughOk(asked.text, "0.0")])
           ELSE SetRough(r, [asked EXCEPT !.pc = "translate_text"])

\* rough.rs 28-32 over ctranslate2.rs 83-86, 203-207, 226-228
RoughIsLoaded(r) ==
    /\ probe.req[r].pc = "is_loaded"
    /\ LET asked == [probe.req[r] EXCEPT !.n_is_loaded = @ + 1]
       IN  IF probe.translator = "none"
           THEN SetRough(r, [asked EXCEPT !.pc = "returned",
                                          !.result = LocalError("not_loaded")])
           ELSE SetRough(r, [asked EXCEPT !.pc = "translate_text"])

\* rough.rs 35-42 over translate_text (231-239) and translate_batch (89-169)
RoughTranslate(r, out) ==
    /\ probe.req[r].pc = "translate_text"
    /\ LET s == [probe.req[r] EXCEPT !.n_translate_batch = @ + 1]
           ran == [s EXCEPT !.n_translator = @ + 1]
       IN  IF probe.translator = "none"
           THEN SetRough(r, [s EXCEPT !.pc = "returned",
                                      !.result = LocalError("ct2_failed_not_loaded")])
           ELSE CASE out.kind = "ok" ->
                         SetRough(r, [ran EXCEPT !.pc = "returned",
                                                 !.result = RoughOk(out.text, "0.9")])
                  [] out.kind = "err" ->
                         SetRough(r, [ran EXCEPT !.pc = "returned",
                                                 !.result = LocalError("ct2_failed")])
                  [] OTHER ->
                         SetRough(r, [ran EXCEPT !.pc = "returned",
                                                 !.result = LocalError("ct2_no_result")])

\* the caller takes the result
RoughReturn(r) ==
    /\ probe.req[r].pc = "returned"
    /\ SetRough(r, IdleRough)

NextRough ==
    /\ \/ \E dir \in Ct2Dirs : load_ct2_model(dir)
       \/ \E r \in RoughCallers :
              /\ probe.req[r].pc = "idle"
              /\ \E text \in RoughTexts, lang \in RoughLangs : RoughStart(r, text, lang)
       \/ \E r \in RoughCallers : RoughIsLoaded(r)
       \/ \E r \in RoughCallers, out \in Ct2Outcomes : RoughTranslate(r, out)
       \/ \E r \in RoughCallers : RoughReturn(r)
    /\ UNCHANGED <<tm, encLock, decLock, call, pool, memo, hist>>

SpecRough == InitRough /\ [][NextRough]_vars

(***************************************************************************)
(* Properties of the decode loop.                                          *)
(***************************************************************************)
SeedLen(s) == IF s.lang.needs_decoder_prefix THEN 2 ELSE 1

Appended(s) == Len(s.generated_ids) - SeedLen(s)

InLoop(s) == s.pc \in {"stepping", "loop_done"}

\* C1 (bounded termination): the decode loop runs the decoder at most
\* max_length times and appends at most one token per run, so at most
\* max_length tokens follow the seed in generated_ids when the loop is done.
C1_BoundedTermination ==
    \A c \in Callers :
        InLoop(call[c]) =>
            /\ Appended(call[c]) <= max_length
            /\ Appended(call[c]) <= call[c].n_decoder
            /\ call[c].n_decoder <= max_length
            /\ call[c].pc = "stepping" => call[c].step < max_length

C1_Witness ==
    \E c \in Callers :
        /\ call[c].pc = "loop_done"
        /\ call[c].exit = "max_length"
        /\ call[c].n_decoder = max_length
        /\ Appended(call[c]) > 0

\* C9 (seed correctness): the first decoder invocation of a call receives
\* [decoder_start] for a plain seed and [eos, tgt_lang_id] for a
\* language-prefixed one, and the seed stays a prefix of every later
\* decoder input of the call.
C9_SeedCorrectness ==
    \A c \in Callers :
        call[c].n_decoder > 0 =>
            LET s == call[c]
                expected == IF s.lang.needs_decoder_prefix
                            THEN <<s.eos_token_id, s.lang.tgt_lang_token_id>>
                            ELSE <<s.decoder_start_token_id>>
            IN  /\ s.first_dec_input = expected
                /\ IsPrefix(expected, s.last_dec_input)
                /\ IsPrefix(expected, s.generated_ids)

C9_Witness ==
    \E c \in Callers :
        /\ call[c].n_decoder >= 2
        /\ call[c].lang.needs_decoder_prefix
        /\ call[c].first_dec_input = <<DefaultStartEosId, MBartTgtLangId>>
        /\ Len(call[c].last_dec_input) > 2

\* C10 (empty-input guard): when the preprocessed text is empty the call
\* ends in an error and has run neither the tokenizer's encode, nor the
\* encoder, nor the decoder.
C10_EmptyInputGuard ==
    \A c \in Callers :
        (/\ call[c].pc \notin {"idle", "spawned"}
         /\ preprocess_text_for_translation(call[c].text) = <<>>) =>
            /\ call[c].pc \in {"task_done", "returned"}
            /\ ~call[c].result.ok
            /\ call[c].n_encode = 0
            /\ call[c].n_encoder = 0
            /\ call[c].n_decoder = 0

C10_Witness ==
    \E c \in Callers :
        /\ call[c].pc = "returned"
        /\ call[c].text # <<>>
        /\ \E i \in DOMAIN call[c].text : call[c].text[i] # " "
        /\ call[c].result = Err("empty_text")

\* no window of n ids occurs at two positions of ids
NoRepeatedNgram(ids, n) ==
    \A i, j \in 1..(Len(ids) - n + 1) :
        i < j => SubSeq(ids, i, i + n - 1) # SubSeq(ids, j, j + n - 1)

\* the loop of the call ended and its output ids were computed
Detokenized(s) == s.pc \in {"task_done", "returned"} /\ s.exit # ""

\* C4 (no-repeat n-gram, as stated): unless the loop ended by n-gram
\* exhaustion, no n-gram of length no_repeat_ngram_size occurs twice in the
\* output ids of a call.
C4_NoRepeatNgramOutput ==
    \A c \in Callers :
        (Detokenized(call[c]) /\ call[c].exit # "ngram_exhausted") =>
            NoRepeatedNgram(call[c].output_ids, no_repeat_ngram_size)

\* C4 (amended): the same, for the calls whose output ids are the generated
\* ids after the seed with nothing filtered out of the middle: every
\* plain-seed call, and the language-prefixed calls that generated neither
\* id 0 nor id 1.
C4_NoRepeatNgramUnfiltered ==
    \A c \in Callers :
        (/\ Detokenized(call[c])
         /\ call[c].exit # "ngram_exhausted"
         /\ \/ ~call[c].lang.needs_decoder_prefix
            \/ \A i \in 3..Len(call[c].generated_ids) :
                   call[c].generated_ids[i] \notin {BosId, PadId}) =>
            NoRepeatedNgram(call[c].output_ids, no_repeat_ngram_size)

C4_Witness ==
    \E c \in Callers :
        /\ Detokenized(call[c])
        /\ call[c].exit # "ngram_exhausted"
        /\ call[c].lang.needs_decoder_prefix
        /\ \A i \in 3..Len(call[c].generated_ids) :
               call[c].generated_ids[i] \notin {BosId, PadId}
        /\ Len(call[c].output_ids) >= 3
        /\ call[c].output_ids[1] = call[c].output_ids[2]

(***************************************************************************)
(* Properties of concurrent and successive calls.                          *)
(***************************************************************************)
\* the call is between taking the encoder lock and the end of its loop
Inferring(s) == s.pc \in {"encoder", "want_dec", "stepping", "loop_done"}

\* C2 (mutual exclusion): on one pair of sessions, at most one call at a
\* time is between the start of its encoder run and the end of its decode
\* loop, and that call holds the encoder lock; a call in its decode loop
\* holds the decoder lock too.
C2_MutualExclusion ==
    /\ \A c, d \in Callers :
           /\ Inferring(call[c]) /\ Inferring(call[d])
           /\ call[c].sess = call[d].sess
           => c = d
    /\ \A c \in Callers :
           /\ Inferring(call[c]) => encLock[call[c].sess].holder = c
           /\ call[c].pc \in {"stepping", "loop_done"} =>
                  decLock[call[c].sess].holder = c

C2_Witness ==
    \E c, d \in Callers :
        /\ call[c].pc = "stepping"
        /\ call[c].n_decoder > 0
        /\ call[d].pc = "want_enc"

\* C3 (determinism): with a fixed encoder and decoder and without
\* sampling, two calls on the same (text, source_lang, target_lang) choose
\* the same tokens and end in the same result.
C3_Determinism ==
    \A c \in Callers :
        call[c].pc = "returned" =>
            \A e \in hist.seen :
                e.in = Input(call[c]) => e.out = Outcome(call[c])

\* C7 (no cross-request state): a call, whether it succeeded, failed or
\* panicked, leaves nothing behind that a later call can observe: a later
\* call on the input of the first call since the load ends as that one did.
C7_NoCrossRequestState ==
    \A c \in Callers :
        call[c].pc = "returned" =>
            \A e \in hist.first :
                e.in = Input(call[c]) => e.out.result = call[c].result

\* the call passed the loaded checks and resolved its conventions
InFlight(s) == s.pc \notin {"idle"} /\ s.n_encode > 0

\* C8 (model family): all calls on one loaded model use one seed and
\* encoder-prefix convention.
C8_SingleFamily ==
    \A c, d \in Callers :
        InFlight(call[c]) /\ InFlight(call[d]) => call[c].lang = call[d].lang

(***************************************************************************)
(* Properties of the helpers of the loop.                                  *)
(***************************************************************************)
\* C5 (repetition penalty): one more occurrence of a token id in
\* generated_ids strictly lowers the logit of that token after the penalty.
C5_PenaltyLowers ==
    probe.phase = "out" => probe.with_k1 < probe.with_k

\* C6 (repeat-run abort): when the top-scoring token is the same id on
\* every step, the loop ends when the repeat counter reaches
\* repetition_threshold, on the candidate that is not appended.
C6_RepeatRunAbort ==
    \A c \in Callers :
        call[c].pc = "loop_done" =>
            /\ call[c].exit = "repeat_run"
            /\ call[c].consecutive_same = repetition_threshold

(***************************************************************************)
(* Properties of the end of the loop and of detokenization.                *)
(***************************************************************************)
\* the tokens the loop appended after the seed
AppendedIds(s) == Drop(s.generated_ids, SeedLen(s))

\* C11 (clean termination, as stated): when the loop ends on an EOS
\* candidate, nothing is appended in that step and the ids handed to the
\* tokenizer for decoding are exactly the tokens appended before it, in
\* order, with no seed token among them.
C11_CleanTerminationExact ==
    \A c \in Callers :
        (Detokenized(call[c]) /\ call[c].exit = "eos") =>
            /\ call[c].generated_ids = call[c].last_dec_input
            /\ call[c].output_ids = AppendedIds(call[c])
            /\ \A i \in DOMAIN call[c].output_ids :
                   call[c].output_ids[i] \notin Range(Seed(call[c]))

\* C11 (amended): when the loop ends on an EOS candidate, nothing is
\* appended in that step and the ids handed to the tokenizer are the tokens
\* appended before it, in order, after the family's filter: without the ids
\* 0 and 1 for a language-prefixed call, cut at the first id 0 for a
\* plain-seed call; neither eos_token_id nor decoder_start_token_id is
\* among them.
C11_CleanTerminationFiltered ==
    \A c \in Callers :
        (Detokenized(call[c]) /\ call[c].exit = "eos") =>
            LET s == call[c]
            IN  /\ s.generated_ids = s.last_dec_input
                /\ s.eos_token_id \notin Range(AppendedIds(s))
                /\ s.output_ids =
                       IF s.lang.needs_decoder_prefix
                       THEN SelectNot(AppendedIds(s), {BosId, PadId})
                       ELSE TakeUntil(AppendedIds(s), {0})
                /\ \A i \in DOMAIN s.output_ids :
                       s.output_ids[i] \notin {s.eos_token_id, s.decoder_start_token_id}

C11_Witness ==
    \E c \in Callers :
        /\ Detokenized(call[c])
        /\ call[c].exit = "eos"
        /\ call[c].lang.needs_decoder_prefix
        /\ call[c].n_decoder = 3
        /\ Len(call[c].output_ids) = 2
        /\ call[c].output_ids = AppendedIds(call[c])
        /\ call[c].result.ok

\* every entry of the vocabulary would repeat an n-gram of generated_ids
AllRepeat(s) ==
    \A v \in 0..(s.vocab_size - 1) :
        has_repeated_ngram(s.generated_ids, no_repeat_ngram_size, v)

\* a decoder run of the call that returned logits
Stepped(c) ==
    /\ call[c].pc = "stepping"
    /\ call'[c].n_decoder = call[c].n_decoder + 1
    /\ call'[c].pc \in {"stepping", "loop_done"}

\* the step that finds every entry repeating ends the loop and appends
\* nothing; the detokenizer gets generated_ids as the step found it
ExhaustionEndsLoop ==
    /\ [][\A c \in Callers :
             (Stepped(c) /\ AllRepeat(call[c])) =>
                 /\ call'[c].pc = "loop_done"
                 /\ call'[c].exit = "ngram_exhausted"
                 /\ call'[c].generated_ids = call[c].generated_ids]_vars
    /\ [](\A c \in Callers :
             call[c].exit = "ngram_exhausted" =>
                 call[c].generated_ids = call[c].last_dec_input)

\* the text of ids, as the tokenizer decodes it and translate cleans it
TextOf(ids) == Cleanup(decode(ids))

\* C12 (n-gram exhaustion, as stated): when the candidate and every other
\* vocabulary entry repeat an n-gram, the loop ends in that step without
\* appending, the detokenizer receives generated_ids as it was, and the
\* call returns the text generated so far, or the empty-generation error
\* if nothing was ever appended.
C12_ExhaustionReturnsText ==
    \A c \in Callers :
        call[c].exit = "ngram_exhausted" =>
            /\ call[c].generated_ids = call[c].last_dec_input
            /\ Detokenized(call[c]) =>
                   call[c].result =
                       IF AppendedIds(call[c]) = <<>> THEN Err("empty_ids_out")
                       ELSE Ok(TextOf(AppendedIds(call[c])))

\* C12 (amended): when the candidate and every other vocabulary entry
\* repeat an n-gram, the loop ends in that step without appending, the
\* detokenizer receives generated_ids as it was, and the call returns what
\* detokenization makes of it: the cleaned text of the filtered ids, the
\* empty-generation error when the filter leaves no id (even though tokens
\* were appended), or the empty-output error when the cleaned text is empty.
C12_ExhaustionDetokenizes ==
    /\ ExhaustionEndsLoop
    /\ [](\A c \in Callers :
             (Detokenized(call[c]) /\ call[c].exit = "ngram_exhausted") =>
                 LET s == call[c]
                     kept == IF s.lang.needs_decoder_prefix
                             THEN SelectNot(AppendedIds(s), {BosId, PadId})
                             ELSE TakeUntil(AppendedIds(s), {0})
                 IN  /\ s.output_ids = kept
                     /\ s.result = IF kept = <<>> THEN Err("empty_ids_out")
                                   ELSE IF TextOf(kept) = <<>>
                                   THEN Err("empty_translation")
                                   ELSE Ok(TextOf(kept)))

C12_Witness ==
    \E c \in Callers :
        /\ Detokenized(call[c])
        /\ call[c].exit = "ngram_exhausted"
        /\ AllRepeat(call[c])
        /\ Len(AppendedIds(call[c])) >= 4
        /\ call[c].result.ok

\* C13 (no silent empty result): a call never returns Ok with an empty or
\* whitespace-only text; when the filtered ids are empty, or the decoded and
\* cleaned text is empty, the call ends in an error.
C13_NoSilentEmpty ==
    \A c \in Callers :
        /\ call[c].result.ok =>
               \E i \in DOMAIN call[c].result.val : call[c].result.val[i] # " "
        /\ (/\ Detokenized(call[c])
            /\ \/ call[c].output_ids = <<>>
               \/ TextOf(call[c].output_ids) = <<>>) =>
               /\ ~call[c].result.ok
               /\ call[c].result.val # <<>>

C13_Witness ==
    \E c \in Callers :
        /\ call[c].pc = "returned"
        /\ call[c].exit # ""
        /\ call[c].output_ids # <<>>
        /\ TextOf(call[c].output_ids) = <<>>
        /\ call[c].result = Err("empty_translation")

\* C14  Failure propagation without retry: once an encoder or decoder run of
\* a call has failed, the task has ended with an error; the failed run was the
\* call's last encoder or decoder run, no tokenizer decode is made, the
\* tokens generated before are not in the result, and until the caller takes
\* the result none of this changes.
C14_FailurePropagation ==
    /\ [](\A c \in Callers :
            call[c].run_failed =>
                /\ call[c].pc \in {"task_done", "returned"}
                /\ ~call[c].result.ok
                /\ call[c].result.val \in {<<"encoder_err">>, <<"decoder_run">>}
                /\ call[c].n_decode = 0
                /\ call[c].exit = ""
                /\ call[c].n_encoder = 1)
    /\ [][\A c \in Callers :
             call[c].run_failed =>
                 \/ call'[c] = IdleCall
                 \/ /\ call'[c].n_encoder = call[c].n_encoder
                    /\ call'[c].n_decoder = call[c].n_decoder
                    /\ call'[c].n_decode = call[c].n_decode
                    /\ call'[c].result = call[c].result]_vars

\* the decoder failed after a token had been appended, and the caller got
\* the decoder's error
C14_Witness ==
    \E c \in Callers :
        /\ call[c].pc = "returned"
        /\ call[c].run_failed
        /\ call[c].n_decoder >= 2
        /\ Appended(call[c]) >= 1
        /\ call[c].result = Err("decoder_run")

\* C15  Shape mismatch is fatal: once the encoder has returned hidden states
\* that are not [1, L, H], or the decoder logits that are not
\* [1, T, vocab_size], the call does not continue and ends with an error.
C15_ShapeMismatchFatal ==
    \A c \in Callers :
        call[c].shape_mismatch =>
            /\ call[c].pc \in {"task_done", "task_panicked", "returned"}
            /\ ~call[c].result.ok

\* the call is in its decode loop and holds both locks of its sessions
HoldsLoopLocks(c) ==
    call[c].pc \in {"stepping", "loop_done"} =>
        /\ encLock[call[c].sess].holder = c
        /\ decLock[call[c].sess].holder = c

\* a step of the system takes a call in its decode loop to the next
\* iteration, to the end of the loop (Done) or to a failure (Failed)
LoopRunsOn(c) ==
    call[c].pc = "stepping" =>
        /\ call'[c].pc \in {"stepping", "loop_done", "task_done", "task_panicked"}
        /\ call'[c].pc = "task_done" => ~call'[c].result.ok
        /\ call'[c].n_decoder >= call[c].n_decoder

\* C16 as stated: while a call is in its decode loop, whether or not its
\* future was abandoned, it holds the session locks and no other call is
\* between the start of its encoder run and the end of its loop.
C16_NoOtherInference ==
    \A c \in Callers :
        /\ HoldsLoopLocks(c)
        /\ call[c].pc \in {"stepping", "loop_done"} =>
               \A d \in Callers \ {c} : ~Inferring(call[d])

\* C16  No cancellation mid-decode: a call leaves the Stepping state only
\* through Done or Failed, also after its future was abandoned; until its
\* loop has ended it holds both locks of its sessions, and no other call on
\* the same sessions is between the start of its encoder run and the end of
\* its loop.
C16_NoCancellation ==
    /\ [][\A c \in Callers : LoopRunsOn(c)]_vars
    /\ [](\A c \in Callers :
            /\ HoldsLoopLocks(c)
            /\ call[c].pc \in {"stepping", "loop_done"} =>
                   \A d \in Callers \ {c} :
                       call[d].sess = call[c].sess => ~Inferring(call[d]))

\* an abandoned call is still in its loop after a decoder run, and a
\* later call on the same sessions waits for the encoder lock
C16_Witness ==
    \E c, d \in Callers :
        /\ call[c].abandoned
        /\ call[c].pc = "stepping"
        /\ call[c].n_decoder > 0
        /\ call[d].pc = "want_enc"
        /\ ~call[d].abandoned
        /\ call[d].sess = call[c].sess

\* the call has tokenized its text and is past its encoder step
PastEncoder(s) ==
    /\ s.input_ids # <<>>
    /\ s.pc \in {"want_dec", "stepping", "loop_done", "task_done", "task_panicked",
                 "returned"}

\* C17  Encoder invoked once: a call runs the encoder at most once, it has
\* run it before any decoder run, and a call whose preprocessing and
\* tokenization succeeded has run it exactly once when it is past its
\* encoder step.
C17_EncoderOnce ==
    \A c \in Callers :
        /\ call[c].n_encoder <= 1
        /\ call[c].n_decoder > 0 => call[c].n_encoder = 1
        /\ PastEncoder(call[c]) => call[c].n_encoder = 1

\* what the tokenizer returned for the text of the call
Tokenized(s) == encode(s.tokenizer, preprocess_text_for_translation(s.text))

\* C18 as stated: under the LanguagePrefixed convention (seed
\* [eos, target_lang_token]) the ids sent to the encoder start with the
\* resolved source_lang_token.
C18_PrefixWhenLanguagePrefixed ==
    \A c \in Callers :
        call[c].n_encoder > 0 /\ call[c].lang.needs_decoder_prefix =>
            Head(call[c].input_ids) = call[c].lang.src_lang_token_id

\* C18  Source-language prefix: when the resolution asks for an encoder
\* prefix (the mBART resolution), the ids sent to the encoder start with
\* the resolved source_lang_token, inserted once if the tokenizer did not
\* put it there; under every other resolution, the NLLB one included, the
\* ids start as the tokenizer returned them.
C18_SourcePrefix ==
    \A c \in Callers :
        call[c].n_encoder > 0 =>
            LET s == call[c]
                src == s.lang.src_lang_token_id
            IN  IF s.lang.needs_encoder_prefix
                THEN /\ Head(s.input_ids) = src
                     /\ IF Head(Tokenized(s)) = src
                        THEN IsPrefix(Tokenized(s), s.input_ids)
                        ELSE IsPrefix(<<src>> \o Tokenized(s), s.input_ids)
                ELSE IsPrefix(Tokenized(s), s.input_ids)

\* the encoder ran on a prefix that translate inserted
C18_Witness ==
    \E c \in Callers :
        /\ call[c].n_encoder > 0
        /\ call[c].lang.needs_encoder_prefix
        /\ call[c].tokenizer.lang_prefix = None
        /\ Head(call[c].input_ids) = call[c].lang.src_lang_token_id

\* C19  EOS-terminated encoder input: the ids sent to the encoder end with
\* eos_token_id; they are one longer than the prefixed tokenizer sequence
\* when that did not end with EOS, and as long when it did.
C19_EosTerminated ==
    \A c \in Callers :
        call[c].n_encoder > 0 =>
            LET s == call[c]
                inserted == IF /\ s.lang.needs_encoder_prefix
                               /\ Head(Tokenized(s)) # s.lang.src_lang_token_id
                            THEN 1 ELSE 0
                appended == Len(s.input_ids) - Len(Tokenized(s)) - inserted
            IN  /\ Last(s.input_ids) = s.eos_token_id
                /\ appended = IF Last(Tokenized(s)) = s.eos_token_id THEN 0 ELSE 1

\* the encoder ran on ids whose EOS translate appended
C19_Witness ==
    \E c \in Callers :
        /\ call[c].n_encoder > 0
        /\ Last(Tokenized(call[c])) # call[c].eos_token_id
        /\ Last(call[c].input_ids) = call[c].eos_token_id

\* every id of the sequence is an index of the vocabulary
InVocab(ids, vocab_size) ==
    \A i \in DOMAIN ids : 0 <= ids[i] /\ ids[i] < vocab_size

\* C20  Vocabulary bound: the ids sent to the encoder, the ids sent to the
\* decoder (seed included), the ids appended to generated_ids and the ids
\* passed to the tokenizer for decoding are all in 0 .. vocab_size - 1.
C20_VocabularyBound ==
    \A c \in Callers :
        LET s == call[c]
        IN  /\ s.n_encoder > 0 => InVocab(s.input_ids, s.vocab_size)
            /\ s.n_decoder > 0 => InVocab(s.last_dec_input, s.vocab_size)
            /\ s.pc \in {"stepping", "loop_done"} =>
                   InVocab(AppendedIds(s), s.vocab_size)
            /\ s.n_decode > 0 => InVocab(s.output_ids, s.vocab_size)

(***************************************************************************)
(* Detokenization of a PlainSeed call.                                     *)
(***************************************************************************)
\* C21 as stated: the output ids of a PlainSeed call are generated_ids
\* without its first element, cut at the first eos_token, with every
\* decoder_start_token removed, and nothing else removed or cut.
C21_PlainSeedCutAtEos ==
    \A c \in Callers :
        (Detokenized(call[c]) /\ ~call[c].lang.needs_decoder_prefix) =>
            call[c].output_ids =
                SelectNot(TakeUntil(Drop(call[c].generated_ids, 1),
                                    {call[c].eos_token_id}),
                          {call[c].decoder_start_token_id})

\* C21  PlainSeed detokenization: the output ids of a PlainSeed call are
\* generated_ids without its first element, cut at the first id that is
\* eos_token or 0, with every decoder_start_token removed, and nothing else
\* removed or cut.
C21_PlainSeedDetokenization ==
    \A c \in Callers :
        (Detokenized(call[c]) /\ ~call[c].lang.needs_decoder_prefix) =>
            call[c].output_ids =
                SelectNot(TakeUntil(Drop(call[c].generated_ids, 1),
                                    {call[c].eos_token_id, 0}),
                          {call[c].decoder_start_token_id})

\* a PlainSeed call whose eos_token is not 0 appended a token, then id 0,
\* then another token, and was detokenized
C21_Witness ==
    \E c \in Callers :
        /\ Detokenized(call[c])
        /\ ~call[c].lang.needs_decoder_prefix
        /\ call[c].eos_token_id # 0
        /\ \E i \in 3..(Len(call[c].generated_ids) - 1) : call[c].generated_ids[i] = 0
        /\ call[c].generated_ids[2] # 0
        /\ call[c].output_ids # <<>>

IsBlank(text) == \A i \in DOMAIN text : text[i] = " "

\* C23  translate_rough on an empty or whitespace-only text returns Ok with
\* an empty translated_text, whether or not a CTranslate2 model is loaded,
\* and neither asks is_loaded nor calls translate_batch or the translator.
C23_RoughEmptyText ==
    \A r \in RoughCallers :
        LET s == probe.req[r]
        IN  (s.pc # "idle" /\ IsBlank(s.text)) =>
                /\ s.pc = "returned"
                /\ s.result.ok
                /\ s.result.translated_text = <<>>
                /\ s.n_is_loaded = 0
                /\ s.n_translate_batch = 0
                /\ s.n_translator = 0

\* a whitespace-only text was answered while a model was loaded
C23_Witness ==
    \E r \in RoughCallers :
        /\ probe.req[r].pc = "returned"
        /\ probe.req[r].text = <<" ", " ">>
        /\ probe.req[r].result = RoughOk(<<>>, "1.0")
        /\ probe.translator # "none"

\* C24  translate_rough on a text that is not blank returns a LocalError
\* whenever no CTranslate2 model has been loaded successfully, failed loads
\* included, and the translator is not called.
C24_RoughNotLoaded ==
    \A r \in RoughCallers :
        LET s == probe.req[r]
        IN  (s.pc = "returned" /\ ~IsBlank(s.text) /\ probe.translator = "none") =>
                /\ ~s.result.ok
                /\ s.result.error = "not_loaded"
                /\ s.n_translator = 0
                /\ s.n_translate_batch = 0

\* a text was refused after a load had failed
C24_Witness ==
    \E r \in RoughCallers :
        /\ probe.req[r].pc = "returned"
        /\ probe.req[r].text = <<" ", "a">>
        /\ probe.translator = "none"
        /\ probe.last_load = "err"
        /\ probe.req[r].result = LocalError("not_loaded")

(***************************************************************************)
(* Termination and the skipped candidates.                                 *)
(***************************************************************************)
\* the blocking task of the call has ended, by Done and detokenization or by
\* a failure
TaskEnded(s) == s.pc \in {"task_done", "task_panicked", "returned", "idle"}

\* C25  Termination: a call whose task was spawned and whose encoder and
\* decoder runs return ends, and its loop ends after at most max_length
\* decoder runs, every iteration counted, the skipping ones too.
C25_Termination ==
    /\ [](\A c \in Callers :
            /\ call[c].n_decoder <= max_length
            /\ call[c].pc = "stepping" => call[c].step = call[c].n_decoder)
    /\ \A c \in PoolSkip.callers :
           (call[c].pc \in {"spawned", "stepping"}) ~> TaskEnded(call[c])

\* the loop ended on its bound after iterations that skipped their candidate
C25_Witness ==
    \E c \in Callers :
        /\ call[c].pc = "loop_done"
        /\ call[c].exit = "max_length"
        /\ call[c].n_decoder = max_length
        /\ Appended(call[c]) < call[c].n_decoder - 1


(***************************************************************************)
(* C26, C27: candidates equal to the decoder start / pad token             *)
(***************************************************************************)
\* lines 772-832: the candidate of an iteration, after the penalty, the
\* selection and the n-gram fallback
Candidate(s, row, sampled) ==
    LET last_logits == apply_repetition_penalty(ScaleRow(row), s.generated_ids)
        first == SelectCandidate(last_logits, s.text, sampled)
    IN  IF has_repeated_ngram(s.generated_ids, no_repeat_ngram_size, first)
        THEN NgramFallback(last_logits, s.generated_ids)
        ELSE first

\* the caller c takes a decoder step whose candidate is in the set toks
CandidateStep(c, toks) ==
    /\ call[c].pc = "stepping"
    /\ call'[c].n_decoder = call[c].n_decoder + 1
    /\ \E out \in DecoderOutcomes(pool.rows) :
          /\ out.kind \in {"ok", "wide"}
          /\ LET row == RowOf(out.rs, call[c].vocab_size)
                 ran == [call[c] EXCEPT !.n_decoder = @ + 1]
             IN  \E sampled \in Samples(call[c], row) :
                    /\ Candidate(call[c], row, sampled) \in toks
                    /\ call'[c].generated_ids = Iteration(ran, row, sampled).generated_ids
                    /\ call'[c].last_token = Iteration(ran, row, sampled).last_token
                    /\ call'[c].exit = Iteration(ran, row, sampled).exit
                    /\ call'[c].pc = Iteration(ran, row, sampled).pc

PadStep(c) == CandidateStep(c, {call[c].decoder_start_token_id})

SkipStep(c) ==
    /\ call[c].last_token # call[c].decoder_start_token_id
    /\ CandidateStep(c, {call[c].decoder_start_token_id}
                            \cup (call[c].vocab_size..(2 * call[c].vocab_size)))

\* C27 as stated: max_length bounds the appended tokens and not the
\* iterations, so the steps that remain are max_length less the appended
\* tokens, and the loop that ends on max_length has appended max_length tokens
C27_SkipsNotCounted ==
    \A c \in Callers :
        /\ call[c].pc = "stepping" => max_length - call[c].step = max_length - Appended(call[c])
        /\ (call[c].pc = "loop_done" /\ call[c].exit = "max_length") =>
               Appended(call[c]) = max_length

\* C27: a skipped candidate uses up a step of for step in 0..max_length like
\* any other: the skipping iteration appends nothing and advances step, the
\* steps done are the decoder runs done, fewer than max_length while the loop
\* goes on and max_length when it ends on max_length, and the appended tokens
\* are at most the steps done
C27_SkipsCounted ==
    /\ [](\A c \in Callers :
            /\ call[c].pc = "stepping" =>
                   /\ call[c].step = call[c].n_decoder
                   /\ call[c].step < max_length
                   /\ Appended(call[c]) <= call[c].step
            /\ (call[c].pc = "loop_done" /\ call[c].exit = "max_length") =>
                   /\ call[c].step = max_length
                   /\ call[c].n_decoder = max_length
                   /\ Appended(call[c]) <= max_length)
    /\ [][\A c \in Callers :
            SkipStep(c) =>
                /\ call'[c].generated_ids = call[c].generated_ids
                /\ call'[c].step = call[c].step + 1
                /\ call'[c].step - Appended(call'[c]) > call[c].step - Appended(call[c])]_vars

\* the loop ended on max_length after iterations that skipped their candidate
C27_Witness ==
    \E c \in Callers :
        /\ call[c].pc = "loop_done" /\ call[c].exit = "max_length"
        /\ call[c].step = max_length
        /\ Appended(call[c]) + 2 <= call[c].step


(***************************************************************************)
(* Steps 1-4 of an iteration on their own: model.rs 763-832                *)
(***************************************************************************)
\* a vocabulary that holds token 8, and the tokens whose logits vary
SelVocab == 10

SelTokens == {SelVocab - 3, SelVocab - 2, SelVocab - 1}

SelLogits == {0, 4, 6, 9}

SelMaxLen == 3

\* the logits rows: a value for each token of SelTokens, -3 elsewhere
SelRows ==
    {[i \in 0..(SelVocab - 1) |-> IF i \in SelTokens THEN f[i] ELSE -3] :
        f \in [SelTokens -> SelLogits]}

\* generated_ids: a PlainSeed seed and up to SelMaxLen tokens
SelPrefixes ==
    {<<DefaultStartEosId>> \o g :
        g \in UNION {[1..n -> SelTokens] : n \in 0..SelMaxLen}}

SelInputs == [phase : {"in"}, row : SelRows, generated_ids : SelPrefixes]

InitSel == InitEngine(PoolMain) /\ probe \in SelInputs

\* the ids that would not complete an n-gram already in generated_ids
Free(generated_ids, vocab_size) ==
    {t \in 0..(vocab_size - 1) :
        ~has_repeated_ngram(generated_ids, no_repeat_ngram_size, t)}

\* lines 763-832 on probe.row and probe.generated_ids, greedy decoding
SelectStep ==
    /\ probe.phase = "in"
    /\ LET s == [generated_ids |-> probe.generated_ids, text |-> <<>>]
           last_logits == apply_repetition_penalty(ScaleRow(probe.row), s.generated_ids)
           first == SelectCandidate(last_logits, s.text, 0)
       IN  probe' = [phase |-> "out", row |-> probe.row,
                     generated_ids |-> probe.generated_ids,
                     last_logits |-> last_logits,
                     max_idx |-> ArgMax(last_logits),
                     first |-> first,
                     hit |-> has_repeated_ngram(s.generated_ids, no_repeat_ngram_size, first),
                     next_token_id |-> Candidate(s, probe.row, 0)]
    /\ UNCHANGED <<tm, encLock, decLock, call, pool, memo, hist>>

NextSel == SelectStep

SpecSel == InitSel /\ [][NextSel]_vars

\* C28: when the candidate would complete an n-gram already present and some
\* vocabulary entry would not, the replacement is such an entry and no such
\* entry has a higher penalty-adjusted logit; the code walks
\* logit_values.iter().skip(1), so the entry sorted first is never tried, also
\* when it is not the violating candidate (a tie with it, or the token-8 guard)
C28_FallbackIsBestFree ==
    (probe.phase = "out" /\ probe.hit
        /\ Free(probe.generated_ids, SelVocab) # {}) =>
        /\ probe.next_token_id \in Free(probe.generated_ids, SelVocab)
        /\ \A t \in Free(probe.generated_ids, SelVocab) :
               probe.last_logits[t] <= probe.last_logits[probe.next_token_id]


\* the ids of the highest logit
Top(logits) == {t \in DOMAIN logits : \A u \in DOMAIN logits : logits[u] <= logits[t]}

\* the ids of the highest logit among the ids other than token 8
TopBut8(logits) ==
    {t \in DOMAIN logits \ {Token8} :
        \A u \in DOMAIN logits \ {Token8} : logits[u] <= logits[t]}

\* C30: after the repetition penalty, when token 8 alone has the highest
\* logit and exceeds every other logit by more than 2.0, the candidate is a
\* token of the second-highest logit; in every other case (token 8 not the
\* argmax, a margin of at most 2.0, ties) the candidate is the argmax
C30_Token8Guard ==
    probe.phase = "out" =>
        LET logits == probe.last_logits
        IN  IF /\ Top(logits) = {Token8}
               /\ \A u \in TopBut8(logits) :
                      logits[Token8] - logits[u] > Token8Margin * LogitScale
            THEN probe.first \in TopBut8(logits)
            ELSE probe.first = probe.max_idx /\ probe.first \in Top(logits)

\* token 8 was the argmax and the guard gave way to the second-highest token
C30_Witness ==
    /\ probe.phase = "out"
    /\ probe.max_idx = Token8
    /\ probe.first # Token8
    /\ probe.first \in TopBut8(probe.last_logits)


(***************************************************************************)
(* C29: the inputs of the decoder runs                                     *)
(***************************************************************************)
\* C29: every decoder run of a call receives the whole of generated_ids as it
\* is before the run, the first one the seed, and all of them the hidden
\* states the encoder returned for input_ids and a mask of ones as long as
\* input_ids; encoder_hidden_states does not change while the loop runs
C29_DecoderInputs ==
    /\ [](\A c \in Callers :
            (InLoop(call[c]) /\ call[c].n_decoder > 0) =>
                /\ call[c].first_dec_input = Seed(call[c])
                /\ call[c].encoder_hidden_states = Hidden(call[c].input_ids)
                /\ call[c].dec_enc =
                       {[encoder_hidden_states |-> call[c].encoder_hidden_states,
                         encoder_attention_mask |->
                             [i \in 1..Len(call[c].input_ids) |-> 1]]})
    /\ [][\A c \in Callers :
            /\ call'[c].n_decoder = call[c].n_decoder + 1 =>
                   call'[c].last_dec_input = call[c].generated_ids
            /\ (InLoop(call[c]) /\ InLoop(call'[c])) =>
                   call'[c].encoder_hidden_states = call[c].encoder_hidden_states]_vars

\* a decoder run on a prefix longer than the seed, after earlier runs
C29_Witness ==
    \E c \in Callers :
        /\ InLoop(call[c])
        /\ call[c].n_decoder >= 3
        /\ Len(call[c].last_dec_input) > SeedLen(call[c]) + 1
        /\ Cardinality(call[c].dec_enc) = 1


(***************************************************************************)
(* preprocess_text_for_translation on its own: model.rs 25-51              *)
(***************************************************************************)
PreInputs == [phase : {"in"}, text : TextsAll]

InitPre == InitEngine(PoolMain) /\ probe \in PreInputs

\* lines 30-44: the text after steps 1-4, before the punctuation is trimmed
BeforePunctuationTrim(text) ==
    IF text = <<>> THEN <<>>
    ELSE CollapseWs(ReplaceUnk(RemoveSpans(RemoveSpans(
             CollapseWs(TrimMatches(text, {" "})), "[", "]"), "(", ")")))

Preprocess ==
    /\ probe.phase = "in"
    /\ probe' = [phase |-> "out", text |-> probe.text,
                 residue |-> BeforePunctuationTrim(probe.text),
                 cleaned |-> preprocess_text_for_translation(probe.text)]
    /\ UNCHANGED <<tm, encLock, decLock, call, pool, memo, hist>>

NextPre == Preprocess

SpecPre == InitPre /\ [][NextPre]_vars

\* C31: punctuation is stripped only from a text that is nothing but
\* punctuation: when what steps 1-4 leave holds a character that is no
\* punctuation, it is returned with its leading and trailing punctuation.
\* The code trims '.', ',', '!', '?', ';', ':' and ' ' from both ends of
\* every text (trim_matches, line 47).
C31_PunctuationKept ==
    (probe.phase = "out" /\ \E i \in DOMAIN probe.residue : probe.residue[i] \notin PunctSet)
        => probe.cleaned = probe.residue


(***************************************************************************)
(* C32-C35: invariants of the decoding state                               *)
(***************************************************************************)
\* C32: in every state of the loop, generated_ids, seed included, holds no
\* n-gram of length no_repeat_ngram_size at two different positions
C32_NgramInvariant ==
    \A c \in Callers :
        InLoop(call[c]) => NoRepeatedNgram(call[c].generated_ids, no_repeat_ngram_size)

\* a language-prefixed call has appended three tokens, one of them twice
C32_Witness ==
    \E c \in Callers :
        /\ InLoop(call[c])
        /\ call[c].lang.needs_decoder_prefix
        /\ Appended(call[c]) >= 3
        /\ \E i, j \in 3..Len(call[c].generated_ids) :
               i < j /\ call[c].generated_ids[i] = call[c].generated_ids[j]


\* C33: with no_repeat_ngram_size = 2 the consecutive-repeat counter is at
\* most 1 in every state of the loop, and the loop never ends on the
\* consecutive-repeat abort
C33_RepeatCounter ==
    \A c \in Callers :
        InLoop(call[c]) =>
            /\ call[c].consecutive_same <= 1
            /\ call[c].exit # "repeat_run"

\* the same token was the candidate twice in a row and the loop goes on
C33_Witness ==
    \E c \in Callers :
        /\ call[c].pc = "stepping"
        /\ call[c].consecutive_same = 1
        /\ Appended(call[c]) >= 2
        /\ call[c].generated_ids[Len(call[c].generated_ids)] = call[c].last_token
        /\ call[c].generated_ids[Len(call[c].generated_ids) - 1] = call[c].last_token


\* C34: no id equal to eos_token_id or decoder_start_token_id stands in
\* generated_ids after the seed; while the loop runs generated_ids only
\* grows, by at most one id and only in a step that runs the decoder, and the
\* ids it holds stay as they are
C34_AppendOnly ==
    /\ [](\A c \in Callers :
            InLoop(call[c]) =>
                /\ SubSeq(call[c].generated_ids, 1, SeedLen(call[c])) = Seed(call[c])
                /\ \A i \in (SeedLen(call[c]) + 1)..Len(call[c].generated_ids) :
                       call[c].generated_ids[i] \notin
                           {call[c].eos_token_id, call[c].decoder_start_token_id})
    /\ [][\A c \in Callers :
            (InLoop(call[c]) /\ InLoop(call'[c])) =>
                /\ IsPrefix(call[c].generated_ids, call'[c].generated_ids)
                /\ Len(call'[c].generated_ids) <= Len(call[c].generated_ids) + 1
                /\ Len(call'[c].generated_ids) > Len(call[c].generated_ids) =>
                       call'[c].n_decoder = call[c].n_decoder + 1]_vars

\* the loop ended on an EOS candidate after it had appended tokens
C34_Witness ==
    \E c \in Callers :
        /\ call[c].pc = "loop_done" /\ call[c].exit = "eos"
        /\ Appended(call[c]) >= 2
        /\ call[c].n_decoder = Appended(call[c]) + 1


\* C35: generated_ids never holds more than SafetyStopLen + 1 ids (101 in the
\* code), so at most SafetyStopLen + 1 less the seed are appended, although
\* max_length is larger; the loop goes on only while the length is at most
\* SafetyStopLen, and ends on the safety stop as soon as it exceeds it
C35_LengthCap ==
    \A c \in Callers :
        InLoop(call[c]) =>
            /\ SafetyStopLen < max_length
            /\ Len(call[c].generated_ids) <= SafetyStopLen + 1
            /\ Appended(call[c]) <= SafetyStopLen + 1 - SeedLen(call[c])
            /\ call[c].pc = "stepping" => Len(call[c].generated_ids) <= SafetyStopLen
            /\ Len(call[c].generated_ids) > SafetyStopLen =>
                   call[c].pc = "loop_done" /\ call[c].exit = "safety"

\* the loop of a two-token seed ended on the cap, SafetyStopLen - 1 ids appended
C35_Witness ==
    \E c \in Callers :
        /\ call[c].pc = "loop_done" /\ call[c].exit = "safety"
        /\ Len(call[c].generated_ids) = SafetyStopLen + 1
        /\ call[c].lang.needs_decoder_prefix
        /\ Appended(call[c]) = SafetyStopLen - 1


(***************************************************************************)
(* C36: a decoder whose logits depend only on its inputs                   *)
(***************************************************************************)
\* the decoder returns the same output whenever it runs on the same inputs
PoolSkipDet ==
    [callers |-> {1}, texts |-> "two", langs |-> {<<"en", "zh">>},
     dirs |-> {DirMarian}, rows |-> RowSpecs({1, 3, 4}, {0}), encs |-> {"ok"},
     fixed |-> TRUE, decs |-> SoundDecoder]

InitSkipDet == InitWith(PoolSkipDet)

SpecSkipDet == InitSkipDet /\ [][Next]_vars

\* C36: with a decoder whose logits depend only on its inputs, the step after
\* a step that skipped a candidate equal to decoder_start_token has the same
\* candidate and ends the loop, so nothing is appended after a skipped step
C36_SkipEndsDecode ==
    [][\A c \in Callers :
          (/\ call[c].pc = "stepping"
           /\ call[c].last_token = call[c].decoder_start_token_id
           /\ call'[c].n_decoder = call[c].n_decoder + 1
           /\ ~call'[c].run_failed
           /\ call'[c].pc # "task_panicked") =>
              /\ PadStep(c)
              /\ call'[c].generated_ids = call[c].generated_ids
              /\ call'[c].pc = "loop_done" /\ call'[c].exit = "pad_repeat"]_vars

\* the loop ended in the step after a skipped start / pad candidate, with
\* tokens appended before the skip
C36_Witness ==
    \E c \in Callers :
        /\ call[c].pc = "loop_done" /\ call[c].exit = "pad_repeat"
        /\ Appended(call[c]) >= 1
        /\ call[c].n_decoder = Appended(call[c]) + 2


(***************************************************************************)
(* C37: consistency of what load_model leaves in the model                 *)
(***************************************************************************)
\* the model is as TranslationModel::new made it
Untouched(m) == [m EXCEPT !.sess = 0] = NewModel

\* configuration, sessions and tokenizer of the model come from directory dir
FromDir(m, dir) ==
    /\ m.model_dir = dir.name
    /\ m.encoder_session = dir.name /\ m.decoder_session = dir.name
    /\ m.model_type = dir.config.model_type
    /\ m.eos_token_id = dir.config.eos_token_id
    /\ m.decoder_start_token_id = dir.config.decoder_start_token_id
    /\ m.vocab_size = dir.config.vocab_size
    /\ m.tokenizer = dir.tokenizer

\* C37: after any sequence of load_model calls the model is as it was made,
\* or its configuration, sessions and tokenizer all come from one model
\* directory (a call that returns Err leaves it as it was).  load_model calls
\* load_config before it looks for the .onnx files (lines 138-141), and keeps
\* the tokenizer of an earlier load when its own does not load (176-229).
C37_LoadConsistency ==
    Untouched(tm) \/ \E dir \in pool.dirs : FromDir(tm, dir)


(***************************************************************************)
(* C38: the session locks of concurrent calls                              *)
(***************************************************************************)
\* the blocking tasks of concurrent calls run on, the encoder and decoder
\* runs return, and a task that waits for a mutex which is released again
\* and again gets it in the end
ConcFairness(c) ==
    /\ []<>(call[c].pc # "spawned") \/ []<><<Tokenize(c)>>_vars
    /\ SF_vars(LockEncoder(c))
    /\ WF_vars(\E out \in EncoderOutcomes : RunEncoder(c, out))
    /\ SF_vars(LockDecoder(c))
    /\ WF_vars(\E out \in DecoderOutcomes(PoolConc.rows) : DecodeStep(c, out))
    /\ []<>(call[c].pc # "loop_done") \/ []<><<Detokenize(c)>>_vars

SpecConcFair == SpecConc /\ \A c \in PoolConc.callers : ConcFairness(c)

\* the call waits for a session lock
Waiting(s) == s.pc \in {"want_enc", "want_dec"}

C39_LoadedStaysLoaded ==
    /\ [][probe.translator # "none" =>
              /\ probe'.translator # "none"
              /\ probe'.model_path = probe'.translator]_vars
    /\ [](\A r \in RoughCallers :
            /\ probe.req[r].pc = "translate_text" => probe.translator # "none"
            /\ probe.req[r].result # LocalError("ct2_failed_not_loaded"))

\* a request passed is_loaded(), a load failed, and translate_text ran the
\* translator
C39_Witness ==
    \E r \in RoughCallers :
        /\ probe.req[r].pc = "returned"
        /\ probe.req[r].n_is_loaded = 1
        /\ probe.req[r].n_translator = 1
        /\ probe.req[r].result.ok
        /\ ~probe.req[r].loaded_at_start
        /\ probe.last_load = "err"


(***************************************************************************)
(* get_model and the global TRANSLATION_MODEL: model.rs 1141-1151          *)
(***************************************************************************)
GetMaxCallers == 4

GetCallers == 1..GetMaxCallers

\* a caller outside get_model; handle is the Arc its last call returned
\* (0: none yet)
IdleGet == [pc |-> "idle", handle |-> 0]

\* static TRANSLATION_MODEL: Mutex::const_new(None); slot 0 is None, guard 0
\* is an unlocked mutex, created counts the calls of TranslationModel::new
NoGet ==
    [phase |-> "get", guard |-> 0, slot |-> 0, created |-> 0,
     req |-> [g \in GetCallers |-> IdleGet]]

InitGet == InitEngine(PoolMain) /\ probe = NoGet

SetGet(g, upd) == [probe EXCEPT !.req[g] = upd]

\* a concurrent task calls get_model
GetModelCall(g) ==
    /\ probe.req[g].pc = "idle"
    /\ probe' = SetGet(g, [pc |-> "lock", handle |-> 0])

\* a lock that does not wait for the guard to be dropped
GetModelLockNoWait(g) ==
    /\ probe.req[g].pc = "lock"
    /\ probe' = [SetGet(g, [probe.req[g] EXCEPT !.pc = "locked"]) EXCEPT !.guard = g]

\* line 1146: TRANSLATION_MODEL.lock().await
GetModelLock(g) ==
    /\ probe.req[g].pc = "lock"
    /\ probe.guard = 0
    /\ probe' = [SetGet(g, [probe.req[g] EXCEPT !.pc = "locked"]) EXCEPT !.guard = g]

\* line 1147: guard.is_none()
GetModelIsNone(g) ==
    /\ probe.req[g].pc = "locked"
    /\ probe' = SetGet(g, [probe.req[g] EXCEPT
                              !.pc = IF probe.slot = 0 THEN "create" ELSE "clone"])

\* line 1148: *guard = Some(Arc::new(Mutex::new(TranslationModel::new())))
GetModelCreate(g) ==
    /\ probe.req[g].pc = "create"
    /\ probe' = [SetGet(g, [probe.req[g] EXCEPT !.pc = "clone"]) EXCEPT
                    !.created = @ + 1, !.slot = probe.created + 1]

\* lines 1150-1151: the clone of the Arc is returned and the guard dropped
GetModelReturn(g) ==
    /\ probe.req[g].pc = "clone"
    /\ probe' = [SetGet(g, [pc |-> "idle", handle |-> probe.slot]) EXCEPT
                    !.guard = IF @ = g THEN 0 ELSE @]

NextGet ==
    /\ \E g \in GetCallers :
          \/ GetModelCall(g)
          \/ GetModelLock(g)
          \/ GetModelIsNone(g)
          \/ GetModelCreate(g)
          \/ GetModelReturn(g)
    /\ UNCHANGED <<tm, encLock, decLock, call, pool, memo, hist>>

SpecGet == InitGet /\ [][NextGet]_vars

\* C40: under every interleaving of get_model calls TranslationModel::new
\* runs at most once, the instance in TRANSLATION_MODEL is never replaced,
\* and every handle returned is a handle of that one instance
C40_Singleton ==
    /\ [](/\ probe.created <= 1
          /\ probe.slot = probe.created
          /\ \A g \in GetCallers :
                 probe.req[g].handle # 0 => probe.req[g].handle = probe.slot)
    /\ [][probe.slot # 0 => probe'.slot = probe.slot]_vars

\* a caller holds a handle of the instance while another one waits for the
\* lock that a third one holds
C40_Witness ==
    /\ probe.phase = "get"
    /\ \E g, h \in GetCallers :
           /\ g # h
           /\ probe.req[g].handle = 1
           /\ probe.req[h].pc = "lock"
           /\ probe.guard \notin {0, g, h}
           /\ probe.req[probe.guard].pc = "clone"

====
